---------------------------- MODULE Spec2Model ----------------------------
(***************************************************************************)
(* A model of the respire / fhe-psi private information retrieval code:    *)
(*   - the cuckoo batch layer   (src/src/pir/cuckoo_respire.rs)            *)
(*   - the negacyclic NTT       (src/fhe-psi/src/math/ntt.rs)              *)
(*   - the gadget matrix        (src/fhe-psi/src/fhe/gadget.rs)            *)
(*   - the single-query driver  (src/fhe-psi/src/pir/example.rs)           *)
(* Every part has its own variables and its own specification; a           *)
(* specification leaves the variables of the other parts untouched.        *)
(***************************************************************************)
EXTENDS Integers, Sequences, FiniteSets, TLC

VARIABLES
    \* ---- cuckoo batch layer -------------------------------------------
    pc,             \* position of the batch request
    hashed,         \* DefaultHasher output of every record index (mod NUM_BUCKET^3)
    record_idxs,    \* the batch: position (0-based) -> requested record index
    bucket_layouts, \* DatabaseHint: bucket -> sequence of Some(i) / None
    dbs,            \* Database: bucket -> sequence of records (the bucket's base database)
    mapping,        \* cuckoo's HashMap: bucket -> Some(position) / None
    remaining,      \* cuckoo's stack of <<position, depth>>
    cuckoo_ret,     \* what cuckoo returned: <<"running">>, <<"None">> or <<"Some", vec>>
    evictions,      \* number of evictions cuckoo has performed in this run
    actual_idxs,    \* query: bucket -> slot asked of the bucket's base database
    qs,             \* Query: bucket -> base query
    answers,        \* answer: bucket -> Some(AnswerOne) once its worker has run
    response,       \* Response: the sequence of compressed chunks
    result,         \* extract: position -> record
    \* ---- negacyclic NTT -------------------------------------------------
    nttPc,          \* position of the NTT run
    nttD,           \* const generic D: the degree
    nttN,           \* const generic N: the modulus
    nttW,           \* const generic W: a primitive 2D-th root of unity mod N
    nttTable,       \* the constants of NTTTable<D, N, W>
    va, vb,         \* the coefficient vectors a and b (lane -> value)
    fa, fb,         \* values after ntt_neg_forward on a and on b
    rt,             \* values after ntt_neg_backward on fa
    prod,           \* values after ntt_neg_backward on the lane-wise product of fa and fb
    \* ---- gadget matrix --------------------------------------------------
    gPc,            \* position of the gadget run
    gN, gM, gK,     \* const generics N, M, K: rows and columns of G, columns of m
    gQ,             \* the modulus of the ring Z_N<Q>
    G_BASE, G_LEN,  \* const generics: the base z and the number of digits
    bg_x, bg_i, bg_j, \* build_gadget: the locals x, i and the loop counter j
    gadget,         \* build_gadget: the matrix being filled
    gm,             \* gadget_inverse: the argument m
    m_expanded,     \* gadget_inverse: the result
    g_product,      \* &G * &R_inv
    \* ---- single-query PIR run (run_spiral) -----------------------------
    pirPc,          \* position of run_spiral
    pir_idx,        \* the index under test
    pir_records,    \* run_spiral: the records, index -> D_RECORD bytes
    pir_db,         \* preprocess: bundle index -> packed polynomial
    pir_q,          \* query: the selectors for the index
    response_raw,   \* answer: the vector of candidates, halved by every fold
    pir_response,   \* response_compress: the polynomial of degree D_SWITCH
    pir_extracted,      \* response_extract: the decoded polynomial
    extracted_record, \* run_spiral: the bytes read out of pir_extracted
    \* ---- Ring-GSW (RingGSWNTTCRT) --------------------------------------
    gswPc,          \* position of the GSW tests
    rng,            \* the stream of the sampler behind the binary matrices R
    s_T,            \* the secret key: a 1 x N matrix
    pk_A,           \* the public key: the N x M matrix A
    gsw_mu,         \* the plaintexts mu1, mu2, ... encrypted so far
    gsw_ct,         \* their ciphertexts ct1, ct2, ...
    gsw_pt,         \* the decryptions of gsw_ct
    pt_add_ct, pt_mul_ct, pt_mul_scalar, \* homomorphism_is_correct: the decryptions
    ct_hom,         \* the ciphertext an operation has just produced
    ct12, ct34,     \* homomorphism_mul_multiple_correct: the products
    pt12, pt34, pt1234, \* and the decryptions
    \* ---- rounding between Z_P and Z_Q (test_regev) -------------------------
    regevPc,        \* position of the test
    regev_p, regev_q, \* the moduli P and Q of RingP and RingQ
    regev_mu,       \* the plaintext mu
    regev_e,        \* the error the encoding adds
    regev_scaled,   \* mu.scale_up_into()
    regev_phase,    \* what decode_regev yields: the scaled plaintext plus the error
    regev_decoded,  \* decode_regev(..).round_down_into()
    \* ---- _mm256_mod_mul32 / _mm256_reduce_half on one lane -----------------
    shoupPc,        \* position in the computation
    shoup_lhs,      \* lhs of _mm256_mod_mul32
    shoup_rhs,      \* rhs of _mm256_mod_mul32
    shoup_value,    \* the product in [0, 2N), or the input of _mm256_reduce_half
    shoup_reduced,  \* output of _mm256_reduce_half
    \* ---- Z_N_CycloRaw<D, N>: the tests of z_n_cyclo.rs ---------------------
    cycloPc,        \* position in the test
    cyclo_vec,      \* the Vec<u64> the first element is converted from
    cyclo_vec_b,    \* the Vec<u64> the second element is converted from
    cyclo_a,        \* Z_N_CycloRaw::from(cyclo_vec)
    cyclo_b,        \* Z_N_CycloRaw::from(cyclo_vec_b)
    cyclo_prod,     \* &a * &b
    cyclo_a_one,    \* &a * &one()
    cyclo_one_a,    \* &one() * &a
    \* ---- one forward butterfly, by both paths of ntt_neg_forward -----------
    bflyPc,         \* position
    bfly_x,         \* the left lane, *values.0.get_unchecked(left_idx)
    bfly_y,         \* the right lane
    bfly_w,         \* the twiddle, w_table.value
    bfly_scalar,    \* <<x_new, y_new>> of the scalar path
    bfly_vector     \* <<x_new, y_new>> of the vector path, on the lane


ckVars == <<pc, hashed, record_idxs, bucket_layouts, dbs, mapping, remaining,
            cuckoo_ret, evictions, actual_idxs, qs, answers, response, result>>

nttVars == <<nttPc, nttD, nttN, nttW, nttTable, va, vb, fa, fb, rt, prod>>

gVars == <<gPc, gN, gM, gK, gQ, G_BASE, G_LEN, bg_x, bg_i, bg_j, gadget, gm,
           m_expanded, g_product>>

pirVars == <<pirPc, pir_idx, pir_records, pir_db, pir_q, response_raw, pir_response,
             pir_extracted, extracted_record>>

gswVars == <<gswPc, rng, s_T, pk_A, gsw_mu, gsw_ct, gsw_pt, pt_add_ct, pt_mul_ct, pt_mul_scalar,
             ct_hom, ct12, ct34, pt12, pt34, pt1234>>

regevVars == <<regevPc, regev_p, regev_q, regev_mu, regev_e, regev_scaled, regev_phase, regev_decoded>>

shoupVars == <<shoupPc, shoup_lhs, shoup_rhs, shoup_value, shoup_reduced>>

cycloVars == <<cycloPc, cyclo_vec, cyclo_vec_b, cyclo_a, cyclo_b, cyclo_prod, cyclo_a_one, cyclo_one_a>>

bflyVars == <<bflyPc, bfly_x, bfly_y, bfly_w, bfly_scalar, bfly_vector>>

vars == <<ckVars, nttVars, gVars, pirVars, gswVars, regevVars, shoupVars, cycloVars, bflyVars>>

\* what the cuckoo layer, the NTT, the gadget code and run_spiral each leave alone
notCk == <<nttVars, gVars, pirVars, gswVars, regevVars, shoupVars, cycloVars, bflyVars>>
notNtt == <<ckVars, gVars, pirVars, gswVars, regevVars, shoupVars, cycloVars, bflyVars>>
notGadget == <<ckVars, nttVars, pirVars, gswVars, regevVars, shoupVars, cycloVars, bflyVars>>
notPir == <<ckVars, nttVars, gVars, gswVars, regevVars, shoupVars, cycloVars, bflyVars>>
notGsw == <<ckVars, nttVars, gVars, pirVars, regevVars, shoupVars, cycloVars, bflyVars>>
notRegev == <<ckVars, nttVars, gVars, pirVars, gswVars, shoupVars, cycloVars, bflyVars>>
notShoup == <<ckVars, nttVars, gVars, pirVars, gswVars, regevVars, cycloVars, bflyVars>>
notCyclo == <<ckVars, nttVars, gVars, pirVars, gswVars, regevVars, shoupVars, bflyVars>>
notBfly == <<ckVars, nttVars, gVars, pirVars, gswVars, regevVars, shoupVars, cycloVars>>

----------------------------------------------------------------------------
(* Option<T> *)
Some(x) == <<"Some", x>>
None == <<"None">>
IsSome(o) == o[1] = "Some"
Unwrap(o) == o[2]

Min(a, b) == IF a < b THEN a ELSE b
Max(a, b) == IF a < b THEN b ELSE a

(* 0-based access to a sequence, as the code indexes Vecs and slices *)
At(s, p) == s[p + 1]


----------------------------------------------------------------------------
(***************************************************************************)
(*                       THE CUCKOO BATCH LAYER                            *)
(*                  src/src/pir/cuckoo_respire.rs                          *)
(* CuckooRespireImpl<BATCH_SIZE, NUM_BUCKET, NUM_RECORDS, BaseRespire>,    *)
(* instantiated at model size (the binaries use <4, 7, 2^20> and           *)
(* <8, 13, 2^22>).                                                         *)
(***************************************************************************)
BATCH_SIZE == 2
NUM_BUCKET == 3
NUM_RECORDS == 2
(* BaseRespire::DB_SIZE and BaseRespire::RESPONSE_CHUNK_SIZE *)
DB_SIZE == 4
RESPONSE_CHUNK_SIZE == 2
(* the max_depth query passes to cuckoo (2usize.pow(16) in the code) *)
MaxDepth == 3

Buckets == 0 .. (NUM_BUCKET - 1)
Records == 0 .. (NUM_RECORDS - 1)
(* DefaultHasher::finish() is a u64; only its residue mod NUM_BUCKET^3 is used *)
HashValues == 0 .. (NUM_BUCKET * NUM_BUCKET * NUM_BUCKET - 1)

(* RecordBytes::default() and the caller's records_generator *)
ZeroRecord == <<"rec", 0>>
records_generator(i) == <<"rec", i + 1>>

(* ---- the base PIR (trait Respire), as the batch layer relies on it ---- *)
(* BaseRespire::encode_db(gen).0 : the DB_SIZE records gen(0), gen(1), ... *)
BaseEncodeDb(layout) ==
    [p \in 1 .. DB_SIZE |->
        IF IsSome(layout[p]) THEN records_generator(Unwrap(layout[p])) ELSE ZeroRecord]
query_one(idx) == <<"QueryOne", idx>>
answer_one(db, q) == <<"AnswerOne", At(db, q[2])>>
answer_compress_chunk(chunk) == <<"Compressed", [k \in 1 .. Len(chunk) |-> chunk[k][2]]>>
(* extract_one yields one record per packed position of the chunk *)
extract_one(r_one) ==
    [k \in 1 .. RESPONSE_CHUNK_SIZE |->
        IF k <= Len(r_one[2]) THEN r_one[2][k] ELSE ZeroRecord]

(* ---- idx_to_buckets ---- *)
idx_to_buckets(i) ==
    LET modulus == NUM_BUCKET
        h == hashed[i]
    IN  << h % modulus, (h \div modulus) % modulus,
           ((h \div modulus) \div modulus) % modulus >>

(* ---- encode_db ---- *)
RECURSIVE PushRecords(_)
(* the layouts after the loop  for i in 0..n  of encode_db *)
PushRecords(n) ==
    IF n = 0 THEN [b \in Buckets |-> << >>]
    ELSE LET l0 == PushRecords(n - 1)
             i  == n - 1
             t  == idx_to_buckets(i)
             l1 == [l0 EXCEPT ![t[1]] = Append(@, Some(i))]
             l2 == [l1 EXCEPT ![t[2]] = Append(@, Some(i))]
             l3 == [l2 EXCEPT ![t[3]] = Append(@, Some(i))]
         IN  l3

(* the length of the first bucket only *)
MaxLenOfFirst(l, n) == Len(l[0])
RECURSIVE MaxLen(_, _)
(* bucket_layouts.iter().map(|b| b.len()).max() *)
MaxLen(l, n) == IF n = 0 THEN 0 ELSE Max(Len(l[n - 1]), MaxLen(l, n - 1))

(* the padding pushed in front of the entries *)
PadLayoutInFront(b) == [k \in 1 .. Max(DB_SIZE - Len(b), 0) |-> None] \o b
(* while b.len() < DB_SIZE { b.push(None) } *)
PadLayout(b) == b \o [k \in 1 .. Max(DB_SIZE - Len(b), 0) |-> None]

EncodeDb ==
    /\ pc = "start"
    /\ LET raw == PushRecords(NUM_RECORDS)
           max_count == MaxLen(raw, NUM_BUCKET)
       IN  IF max_count <= DB_SIZE
           THEN /\ bucket_layouts' = [b \in Buckets |-> PadLayout(raw[b])]
                /\ dbs' = [b \in Buckets |-> BaseEncodeDb(PadLayout(raw[b]))]
                /\ pc' = "encoded"
           ELSE \* assert!(max_count <= DB_SIZE) fails
                /\ bucket_layouts' = raw
                /\ dbs' = dbs
                /\ pc' = "panic_encode"
    /\ UNCHANGED <<notCk, hashed, record_idxs, mapping, remaining, cuckoo_ret, evictions,
                   actual_idxs, qs, answers, response, result>>

(* ---- query, first part: the asserts and the start of cuckoo ---- *)
Positions == 0 .. (Len(record_idxs) - 1)

QueryBegin ==
    /\ pc = "encoded"
    /\ IF Len(record_idxs) = BATCH_SIZE
       THEN /\ mapping' = [b \in Buckets |-> None]
            /\ remaining' = [k \in 1 .. Len(record_idxs) |-> <<k - 1, 0>>]
            /\ cuckoo_ret' = <<"running">>
            /\ evictions' = 0
            /\ pc' = "cuckoo"
       ELSE /\ pc' = "panic_query_len"
            /\ UNCHANGED <<mapping, remaining, cuckoo_ret, evictions>>
    /\ UNCHANGED <<notCk, hashed, record_idxs, bucket_layouts, dbs,
                   actual_idxs, qs, answers, response, result>>

(* ---- cuckoo: one iteration of  while let Some((idx, depth)) = remaining.pop() ---- *)
(* the item is placed and stays on the stack *)
PlaceAndKeep(rest, b, idx) ==
    /\ mapping' = [mapping EXCEPT ![b] = Some(idx)]
    /\ remaining' = Append(rest, <<idx, 0>>)
    /\ UNCHANGED <<evictions, cuckoo_ret, pc>>

Place(rest, b, idx) ==
    /\ mapping' = [mapping EXCEPT ![b] = Some(idx)]
    /\ remaining' = rest
    /\ UNCHANGED <<evictions, cuckoo_ret, pc>>

(* mutant of Evict: the occupant is overwritten and never retried *)
EvictForgetsOccupant(rest, b, idx, depth) ==
    /\ remaining' = rest
    /\ mapping' = [mapping EXCEPT ![b] = Some(idx)]
    /\ evictions' = evictions + 1
    /\ UNCHANGED <<cuckoo_ret, pc>>

(* the occupant is retried at the depth of the item that evicted it *)
EvictSameDepth(rest, b, idx, depth) ==
    /\ remaining' = Append(rest, <<Unwrap(mapping[b]), depth>>)
    /\ mapping' = [mapping EXCEPT ![b] = Some(idx)]
    /\ evictions' = evictions + 1
    /\ UNCHANGED <<cuckoo_ret, pc>>

Evict(rest, b, idx, depth) ==
    /\ remaining' = Append(rest, <<Unwrap(mapping[b]), depth + 1>>)
    /\ mapping' = [mapping EXCEPT ![b] = Some(idx)]
    /\ evictions' = evictions + 1
    /\ UNCHANGED <<cuckoo_ret, pc>>

CuckooStep ==
    /\ pc = "cuckoo"
    /\ remaining # << >>
    /\ LET top   == remaining[Len(remaining)]
           rest  == SubSeq(remaining, 1, Len(remaining) - 1)
           idx   == top[1]
           depth == top[2]
           t     == idx_to_buckets(At(record_idxs, idx))
       IN  IF depth >= MaxDepth
           THEN /\ cuckoo_ret' = None
                /\ remaining' = rest
                /\ pc' = "cuckoo_done"
                /\ UNCHANGED <<mapping, evictions>>
           ELSE IF mapping[t[1]] = None THEN Place(rest, t[1], idx)
           ELSE IF mapping[t[2]] = None THEN Place(rest, t[2], idx)
           ELSE IF mapping[t[3]] = None THEN Place(rest, t[3], idx)
           ELSE \E r \in 0 .. 2 :          \* rng.gen_range(0..3)
                    Evict(rest, t[r + 1], idx, depth)
    /\ UNCHANGED <<notCk, hashed, record_idxs, bucket_layouts, dbs,
                   actual_idxs, qs, answers, response, result>>

(* Some(mapping.into_iter().collect_vec()): the pairs in the HashMap's order *)
Occupied == {b \in Buckets : IsSome(mapping[b])}
MappingVecs ==
    {v \in [1 .. Cardinality(Occupied) -> Occupied \X Positions] :
        /\ \A k \in DOMAIN v : mapping[v[k][1]] = Some(v[k][2])
        /\ \A k, l \in DOMAIN v : k # l => v[k][1] # v[l][1]}

CuckooReturn ==
    /\ pc = "cuckoo"
    /\ remaining = << >>
    /\ \E v \in MappingVecs : cuckoo_ret' = Some(v)
    /\ pc' = "cuckoo_done"
    /\ UNCHANGED <<notCk, hashed, record_idxs, bucket_layouts, dbs, mapping, remaining,
                   evictions, actual_idxs, qs, answers, response, result>>

(* ---- cuckoo(items, max_depth) called on a slice of CuckooItems items, and ---- *)
(* ---- on one with more items than there are buckets                      ---- *)
CuckooItems == 3

(* let mut mapping = HashMap::with_capacity(..); let mut remaining = Vec::from_iter(..) *)
CuckooCall ==
    /\ pc = "call_cuckoo"
    /\ mapping' = [b \in Buckets |-> None]
    /\ remaining' = [k \in 1 .. Len(record_idxs) |-> <<k - 1, 0>>]
    /\ pc' = "cuckoo"
    /\ UNCHANGED <<notCk, hashed, record_idxs, bucket_layouts, dbs, cuckoo_ret, evictions,
                   actual_idxs, qs, answers, response, result>>

CuckooCallInit ==
    /\ pc = "call_cuckoo"
    /\ hashed \in [Records -> HashValues]
    /\ \E n \in {CuckooItems, NUM_BUCKET + 1} : record_idxs \in [1 .. n -> Records]
    /\ bucket_layouts = [b \in Buckets |-> << >>]
    /\ dbs = [b \in Buckets |-> << >>]
    /\ mapping = [b \in Buckets |-> None]
    /\ remaining = << >>
    /\ cuckoo_ret = <<"running">>
    /\ evictions = 0
    /\ actual_idxs = [b \in Buckets |-> 0]
    /\ qs = << >>
    /\ answers = [b \in Buckets |-> None]
    /\ response = << >>
    /\ result = << >>

CuckooCallNext ==
    \/ CuckooCall
    \/ CuckooStep
    \/ CuckooReturn

(* ---- query, second part ---- *)
(* find_position(|slot| slot.is_some_and(|i| i == record_idx)) : the first match *)
(* the last match instead of the first *)
find_position_last(layout, record_idx) ==
    LET hits == {p \in 0 .. (Len(layout) - 1) : At(layout, p) = Some(record_idx)}
    IN  IF hits = {} THEN None
        ELSE Some(CHOOSE p \in hits : \A p2 \in hits : p >= p2)

find_position(layout, record_idx) ==
    LET hits == {p \in 0 .. (Len(layout) - 1) : At(layout, p) = Some(record_idx)}
    IN  IF hits = {} THEN None
        ELSE Some(CHOOSE p \in hits : \A p2 \in hits : p <= p2)

RECURSIVE ActualIdxsFromLast(_, _)
(* the vector starts at the last slot of every bucket instead of slot 0 *)
ActualIdxsFromLast(v, n) ==
    IF n = 0 THEN [b \in Buckets |-> DB_SIZE - 1]
    ELSE LET bucket_idx == v[n][1]
             idxs_idx   == v[n][2]
             record_idx == At(record_idxs, idxs_idx)
         IN  [ActualIdxsFromLast(v, n - 1) EXCEPT ![bucket_idx] =
                  Unwrap(find_position(bucket_layouts[bucket_idx], record_idx))]

RECURSIVE ActualIdxs(_, _)
(* actual_idxs after the first n pairs of cuckoo_mapping have been looked up *)
ActualIdxs(v, n) ==
    IF n = 0 THEN [b \in Buckets |-> 0]
    ELSE LET bucket_idx == v[n][1]
             idxs_idx   == v[n][2]
             record_idx == At(record_idxs, idxs_idx)
         IN  [ActualIdxs(v, n - 1) EXCEPT ![bucket_idx] =
                  Unwrap(find_position(bucket_layouts[bucket_idx], record_idx))]

LookupFails(v) ==
    \E k \in DOMAIN v :
        find_position(bucket_layouts[v[k][1]], At(record_idxs, v[k][2])) = None

(* query building a base query for the buckets of the mapping alone *)
QueryFinishMappedOnly ==
    /\ pc = "cuckoo_done"
    /\ IF cuckoo_ret = None
       THEN /\ pc' = "panic_query_unwrap"
            /\ UNCHANGED <<actual_idxs, qs>>
       ELSE LET cuckoo_mapping == Unwrap(cuckoo_ret) IN
            IF Len(cuckoo_mapping) # BATCH_SIZE
            THEN /\ pc' = "panic_query_len"
                 /\ UNCHANGED <<actual_idxs, qs>>
            ELSE IF LookupFails(cuckoo_mapping)
            THEN /\ pc' = "panic_query_find"
                 /\ UNCHANGED <<actual_idxs, qs>>
            ELSE /\ actual_idxs' = ActualIdxs(cuckoo_mapping, Len(cuckoo_mapping))
                 /\ qs' = [b \in {cuckoo_mapping[k][1] : k \in DOMAIN cuckoo_mapping} |->
                              query_one(actual_idxs'[b])]
                 /\ pc' = "queried"
    /\ UNCHANGED <<notCk, hashed, record_idxs, bucket_layouts, dbs, mapping, remaining,
                   cuckoo_ret, evictions, answers, response, result>>

QueryFinish ==
    /\ pc = "cuckoo_done"
    /\ IF cuckoo_ret = None
       THEN \* Self::cuckoo(..).unwrap() on None
            /\ pc' = "panic_query_unwrap"
            /\ UNCHANGED <<actual_idxs, qs>>
       ELSE LET cuckoo_mapping == Unwrap(cuckoo_ret) IN
            IF Len(cuckoo_mapping) # BATCH_SIZE
            THEN /\ pc' = "panic_query_len"
                 /\ UNCHANGED <<actual_idxs, qs>>
            ELSE IF LookupFails(cuckoo_mapping)
            THEN /\ pc' = "panic_query_find"
                 /\ UNCHANGED <<actual_idxs, qs>>
            ELSE /\ actual_idxs' = ActualIdxs(cuckoo_mapping, Len(cuckoo_mapping))
                 /\ qs' = [b \in Buckets |-> query_one(actual_idxs'[b])]
                 /\ pc' = "queried"
    /\ UNCHANGED <<notCk, hashed, record_idxs, bucket_layouts, dbs, mapping, remaining,
                   cuckoo_ret, evictions, answers, response, result>>

(* ---- answer ---- *)
AnswerBegin ==
    /\ pc = "queried"
    /\ answers' = [b \in Buckets |-> None]
    /\ pc' = "answering"
    /\ UNCHANGED <<notCk, hashed, record_idxs, bucket_layouts, dbs, mapping, remaining,
                   cuckoo_ret, evictions, actual_idxs, qs, response, result>>

(* the worker of bucket b reads the query of the next bucket *)
AnswerWorkerNextQuery(b) ==
    /\ pc = "answering"
    /\ answers[b] = None
    /\ answers' = [answers EXCEPT ![b] = Some(answer_one(dbs[b], qs[(b + 1) % NUM_BUCKET]))]
    /\ UNCHANGED <<notCk, pc, hashed, record_idxs, bucket_layouts, dbs, mapping, remaining,
                   cuckoo_ret, evictions, actual_idxs, qs, response, result>>

(* one rayon worker: the closure of par_iter().zip().map() on one bucket *)
AnswerWorker(b) ==
    /\ pc = "answering"
    /\ answers[b] = None
    /\ answers' = [answers EXCEPT ![b] = Some(answer_one(dbs[b], qs[b]))]
    /\ UNCHANGED <<notCk, pc, hashed, record_idxs, bucket_layouts, dbs, mapping, remaining,
                   cuckoo_ret, evictions, actual_idxs, qs, response, result>>

(* answers.chunks(RESPONSE_CHUNK_SIZE) *)
NumChunks == (NUM_BUCKET + RESPONSE_CHUNK_SIZE - 1) \div RESPONSE_CHUNK_SIZE
(* the answers of a chunk in reverse order *)
ChunkBackwards(collected, c) ==
    [k \in 1 .. Min(RESPONSE_CHUNK_SIZE, NUM_BUCKET - (c - 1) * RESPONSE_CHUNK_SIZE) |->
        collected[(c - 1) * RESPONSE_CHUNK_SIZE
                  + Min(RESPONSE_CHUNK_SIZE, NUM_BUCKET - (c - 1) * RESPONSE_CHUNK_SIZE) + 1 - k]]
Chunk(collected, c) ==
    [k \in 1 .. Min(RESPONSE_CHUNK_SIZE, NUM_BUCKET - (c - 1) * RESPONSE_CHUNK_SIZE) |->
        collected[(c - 1) * RESPONSE_CHUNK_SIZE + k]]

AnswerCollect ==
    /\ pc = "answering"
    /\ \A b \in Buckets : IsSome(answers[b])
    /\ LET collected == [k \in 1 .. NUM_BUCKET |-> Unwrap(answers[k - 1])]
       IN  response' = [c \in 1 .. NumChunks |-> answer_compress_chunk(Chunk(collected, c))]
    /\ pc' = "answered"
    /\ UNCHANGED <<notCk, hashed, record_idxs, bucket_layouts, dbs, mapping, remaining,
                   cuckoo_ret, evictions, actual_idxs, qs, answers, result>>

(* ---- extract ---- *)
RECURSIVE ResultByBucket(_, _)
(* result_by_bucket after the first n chunks of the response *)
ResultByBucket(r, n) ==
    IF n = 0 THEN << >>
    ELSE LET sofar == ResultByBucket(r, n - 1)
             extracted == extract_one(r[n])
             room == Max(0, Min(Len(extracted), NUM_BUCKET - Len(sofar)))
         IN  sofar \o SubSeq(extracted, 1, room)

RECURSIVE UncuckooByPosition(_, _, _)
(* mutant of Uncuckoo: the record is taken at the batch position, not at the bucket *)
UncuckooByPosition(v, by_bucket, n) ==
    IF n = 0 THEN [j \in 0 .. (BATCH_SIZE - 1) |-> ZeroRecord]
    ELSE [UncuckooByPosition(v, by_bucket, n - 1) EXCEPT ![v[n][2]] = At(by_bucket, v[n][2])]

RECURSIVE Uncuckoo(_, _, _)
(* result after the first n pairs of cuckoo_mapping *)
Uncuckoo(v, by_bucket, n) ==
    IF n = 0 THEN [j \in 0 .. (BATCH_SIZE - 1) |-> ZeroRecord]
    ELSE [Uncuckoo(v, by_bucket, n - 1) EXCEPT ![v[n][2]] = At(by_bucket, v[n][1])]

Extract ==
    /\ pc = "answered"
    /\ LET result_by_bucket == ResultByBucket(response, Len(response))
           cuckoo_mapping == Unwrap(cuckoo_ret)
       IN  IF Len(result_by_bucket) # NUM_BUCKET \/ Len(cuckoo_mapping) # BATCH_SIZE
           THEN /\ pc' = "panic_extract"
                /\ UNCHANGED result
           ELSE /\ result' = Uncuckoo(cuckoo_mapping, result_by_bucket, Len(cuckoo_mapping))
                /\ pc' = "done"
    /\ UNCHANGED <<notCk, hashed, record_idxs, bucket_layouts, dbs, mapping, remaining,
                   cuckoo_ret, evictions, actual_idxs, qs, answers, response>>

CuckooInit ==
    /\ pc = "start"
    /\ hashed \in [Records -> HashValues]
    /\ record_idxs \in [1 .. BATCH_SIZE -> Records]
    /\ bucket_layouts = [b \in Buckets |-> << >>]
    /\ dbs = [b \in Buckets |-> << >>]
    /\ mapping = [b \in Buckets |-> None]
    /\ remaining = << >>
    /\ cuckoo_ret = <<"running">>
    /\ evictions = 0
    /\ actual_idxs = [b \in Buckets |-> 0]
    /\ qs = << >>
    /\ answers = [b \in Buckets |-> None]
    /\ response = << >>
    /\ result = << >>

CuckooNext ==
    \/ EncodeDb
    \/ QueryBegin
    \/ CuckooStep
    \/ CuckooReturn
    \/ QueryFinish
    \/ AnswerBegin
    \/ \E b \in Buckets : AnswerWorker(b)
    \/ AnswerCollect
    \/ Extract



----------------------------------------------------------------------------
(***************************************************************************)
(*                        THE NEGACYCLIC NTT                               *)
(*                   src/fhe-psi/src/math/ntt.rs                           *)
(* The code works on u64 lanes holding 32-bit values and requires          *)
(* N < 2^30.  The model keeps the structure at a smaller word: a word has  *)
(* WordBits bits (32 in the code), a lane has two words (u64), and the     *)
(* moduli satisfy N < 2^(WordBits - 2).  u64 and u32 arithmetic wraps.     *)
(***************************************************************************)
WordBits == 10
Word == 2 ^ WordBits          \* 2^32 in the code
Lane == Word * Word           \* 2^64 in the code
Lo(v) == v % Word             \* v as u32
Hi(v) == v \div Word
WrapLane(x) == x % Lane       \* u64 arithmetic

(* ---- math::utils and math::int_mod ---- *)
RECURSIVE PowMod(_, _, _)
PowMod(b, e, m) == IF e = 0 THEN 1 % m ELSE (b * PowMod(b, e - 1, m)) % m
mod_inverse(a, m) == CHOOSE x \in 0 .. (m - 1) : (a * x) % m = 1 % m
RECURSIVE floor_log(_, _)
floor_log(b, x) == IF x < b THEN 0 ELSE 1 + floor_log(b, x \div b)
RECURSIVE RevBits(_, _, _)
(* the low `bits` bits of x, reversed, appended to acc *)
RevBits(bits, x, acc) ==
    IF bits = 0 THEN acc ELSE RevBits(bits - 1, x \div 2, 2 * acc + (x % 2))
reverse_bits(d, idx) == RevBits(floor_log(2, d), idx, 0)
(* IntMod<N> multiplication *)
IntModMul(x, y) == (x * y) % nttN

(* ---- the lookup tables: struct NTTTable ---- *)
get_ratio32(a) == (a * Word) \div nttN
MulTable(value) == [value |-> value, ratio32 |-> get_ratio32(value)]
(* entry j of get_powers_bit_reversed(invert): table[reverse_bits(idx)] = root^idx *)
get_powers_bit_reversed(invert, j) ==
    LET root == IF invert THEN mod_inverse(nttW, nttN) ELSE nttW
    IN  MulTable(PowMod(root, reverse_bits(nttD, j), nttN))
(* the associated constants, evaluated once for the instance <D, N, W> *)
NTTTable ==
    [W_POWERS_BIT_REVERSED |-> [j \in 0 .. (nttD - 1) |-> get_powers_bit_reversed(FALSE, j)],
     W_INV_POWERS_BIT_REVERSED |-> [j \in 0 .. (nttD - 1) |-> get_powers_bit_reversed(TRUE, j)],
     LOG_D |-> floor_log(2, nttD),
     INV_D |-> mod_inverse(nttD, nttN) % nttN,
     INV_D_RATIO32 |-> get_ratio32(mod_inverse(nttD, nttN) % nttN)]
W_POWERS_BIT_REVERSED(j) == nttTable.W_POWERS_BIT_REVERSED[j]
W_INV_POWERS_BIT_REVERSED(j) == nttTable.W_INV_POWERS_BIT_REVERSED[j]
LOG_D == nttTable.LOG_D
INV_D == nttTable.INV_D
INV_D_RATIO32 == nttTable.INV_D_RATIO32

(* ---- the AVX2 intrinsics, on one 64-bit lane ---- *)
mm256_set1_epi64x(x) == WrapLane(x)
mm256_mul_epu32(a, b) == Lo(a) * Lo(b)
mm256_srli_epi64_32(a) == a \div Word
mm256_mullo_epi32(a, b) == (((Hi(a) * Hi(b)) % Word) * Word) + ((Lo(a) * Lo(b)) % Word)
mm256_add_epi32(a, b) == (((Hi(a) + Hi(b)) % Word) * Word) + ((Lo(a) + Lo(b)) % Word)
mm256_sub_epi32(a, b) == (((Hi(a) - Hi(b)) % Word) * Word) + ((Lo(a) - Lo(b)) % Word)
mm256_min_epu32(a, b) == (Min(Hi(a), Hi(b)) * Word) + Min(Lo(a), Lo(b))
mm256_add_epi64(a, b) == WrapLane(a + b)
mm256_sub_epi64(a, b) == WrapLane(a - b)

(* ---- _mm256_mod_mul32 and _mm256_reduce_half ---- *)
(* the quotient is rounded to the multiple of 2 below it *)
mm256_mod_mul32_even_quotient(lhs, rhs, rhs_ratio32, neg_modulus) ==
    LET quotient == 2 * (mm256_srli_epi64_32(mm256_mul_epu32(rhs_ratio32, lhs)) \div 2)
        lhs_times_rhs == mm256_mullo_epi32(lhs, rhs)
        neg_modulus_times_quotient == mm256_mullo_epi32(neg_modulus, quotient)
    IN  mm256_add_epi32(lhs_times_rhs, neg_modulus_times_quotient)

mm256_mod_mul32(lhs, rhs, rhs_ratio32, neg_modulus) ==
    LET quotient == mm256_srli_epi64_32(mm256_mul_epu32(rhs_ratio32, lhs))
        lhs_times_rhs == mm256_mullo_epi32(lhs, rhs)
        neg_modulus_times_quotient == mm256_mullo_epi32(neg_modulus, quotient)
    IN  mm256_add_epi32(lhs_times_rhs, neg_modulus_times_quotient)

mm256_reduce_half(value, modulus) ==
    mm256_min_epu32(value, mm256_sub_epi32(value, modulus))

(* ---- ntt_neg_forward ---- *)
(* the scalar butterfly without the reduction of x by 2N *)
FwdScalarButterflyNoReduce(x0, y, w_table) ==
    LET w == w_table.value
        ratio == w_table.ratio32
        x == x0
        quotient == WrapLane(ratio * y) \div Word
        product == (Lo(w) * Lo(y) - Lo(nttN) * Lo(quotient)) % Word
        x_new == WrapLane(x + product)
        y_new == WrapLane(x + WrapLane(2 * nttN - product))
    IN  <<x_new, y_new>>

(* the scalar butterfly of the forward transform: <<x_new, y_new>> *)
FwdScalarButterfly(x0, y, w_table) ==
    LET w == w_table.value
        ratio == w_table.ratio32
        x == IF x0 >= 2 * nttN THEN x0 - 2 * nttN ELSE x0
        quotient == WrapLane(ratio * y) \div Word
        product == (Lo(w) * Lo(y) - Lo(nttN) * Lo(quotient)) % Word
        x_new == WrapLane(x + product)
        y_new == WrapLane(x + WrapLane(2 * nttN - product))
    IN  <<x_new, y_new>>

(* the vector butterfly without the reduction of x by 2N *)
FwdVectorButterflyUnreduced(x0, y, w_table) ==
    LET double_modulus == mm256_set1_epi64x(2 * nttN)
        neg_modulus == mm256_set1_epi64x(-nttN)
        w == mm256_set1_epi64x(w_table.value)
        w_ratio32 == mm256_set1_epi64x(w_table.ratio32)
        x == x0
        product == mm256_mod_mul32(y, w, w_ratio32, neg_modulus)
        x_new_vec == mm256_add_epi64(x, product)
        y_new_vec == mm256_add_epi64(x, mm256_sub_epi64(double_modulus, product))
    IN  <<x_new_vec, y_new_vec>>

(* the vector butterfly of the forward transform, on one lane: <<x_new, y_new>> *)
FwdVectorButterfly(x0, y, w_table) ==
    LET double_modulus == mm256_set1_epi64x(2 * nttN)
        neg_modulus == mm256_set1_epi64x(-nttN)
        w == mm256_set1_epi64x(w_table.value)
        w_ratio32 == mm256_set1_epi64x(w_table.ratio32)
        x == mm256_reduce_half(x0, double_modulus)
        product == mm256_mod_mul32(y, w, w_ratio32, neg_modulus)
        x_new_vec == mm256_add_epi64(x, product)
        y_new_vec == mm256_add_epi64(x, mm256_sub_epi64(double_modulus, product))
    IN  <<x_new_vec, y_new_vec>>

(* FwdRound reading the twiddle of the block index alone *)
FwdRoundBlockTwiddle(values, round) ==
    LET block_count == 2 ^ round
        block_half_stride == nttD \div (2 * block_count)
        block_stride == 2 * block_half_stride
    IN  [i \in 0 .. (nttD - 1) |->
            LET block_idx == i \div block_stride
                left_idx == block_idx * block_stride + (i % block_half_stride)
                right_idx == left_idx + block_half_stride
                w_table == W_POWERS_BIT_REVERSED(block_idx)
                out == IF block_half_stride < 4
                       THEN FwdScalarButterfly(values[left_idx], values[right_idx], w_table)
                       ELSE FwdVectorButterfly(values[left_idx], values[right_idx], w_table)
            IN  IF i = left_idx THEN out[1] ELSE out[2]]

(* the values after one round of the forward transform *)
FwdRound(values, round) ==
    LET block_count == 2 ^ round
        block_half_stride == nttD \div (2 * block_count)
        block_stride == 2 * block_half_stride
    IN  [i \in 0 .. (nttD - 1) |->
            LET block_idx == i \div block_stride
                left_idx == block_idx * block_stride + (i % block_half_stride)
                right_idx == left_idx + block_half_stride
                w_table == W_POWERS_BIT_REVERSED(block_count + block_idx)
                out == IF block_half_stride < 4
                       THEN FwdScalarButterfly(values[left_idx], values[right_idx], w_table)
                       ELSE FwdVectorButterfly(values[left_idx], values[right_idx], w_table)
            IN  IF i = left_idx THEN out[1] ELSE out[2]]

RECURSIVE FwdRounds(_, _)
(* the values after the first n rounds *)
FwdRounds(values, n) == IF n = 0 THEN values ELSE FwdRound(FwdRounds(values, n - 1), n - 1)

(* the last loop with the reduction by N alone *)
FwdFinalOnce(values) ==
    [i \in 0 .. (nttD - 1) |-> mm256_reduce_half(values[i], mm256_set1_epi64x(nttN))]

(* the last loop: every lane reduced by 2N and then by N *)
FwdFinal(values) ==
    [i \in 0 .. (nttD - 1) |->
        mm256_reduce_half(mm256_reduce_half(values[i], mm256_set1_epi64x(2 * nttN)),
                          mm256_set1_epi64x(nttN))]

ntt_neg_forward(values) == FwdFinal(FwdRounds(values, LOG_D))

(* ---- ntt_neg_backward ---- *)
(* BwdButterfly multiplying x - y without the 2N lift *)
BwdButterflyNoLift(x, y, w_table) ==
    LET x_sum == WrapLane(x + y)
        x_new == IF x_sum >= 2 * nttN THEN WrapLane(x_sum - 2 * nttN) ELSE x_sum
        sum == WrapLane(x - y)
        quotient == WrapLane(w_table.ratio32 * sum) \div Word
        y_new == (Lo(w_table.value) * Lo(sum) - Lo(nttN) * Lo(quotient)) % Word
    IN  <<x_new, y_new>>

(* the backward butterfly <<x_new, y_new>>, in u64 arithmetic that wraps *)
BwdButterfly(x, y, w_table) ==
    LET x_sum == WrapLane(x + y)
        x_new == IF x_sum >= 2 * nttN THEN WrapLane(x_sum - 2 * nttN) ELSE x_sum
        sum == WrapLane(WrapLane(x - y) + 2 * nttN)
        quotient == WrapLane(w_table.ratio32 * sum) \div Word
        y_new == (Lo(w_table.value) * Lo(sum) - Lo(nttN) * Lo(quotient)) % Word
    IN  <<x_new, y_new>>

BwdRound(values, round) ==
    LET block_count == nttD \div (2 ^ (1 + round))
        block_half_stride == 2 ^ round
        block_stride == 2 * block_half_stride
    IN  [i \in 0 .. (nttD - 1) |->
            LET block_idx == i \div block_stride
                left_idx == block_idx * block_stride + (i % block_half_stride)
                right_idx == left_idx + block_half_stride
                w_table == W_INV_POWERS_BIT_REVERSED(block_count + block_idx)
                out == BwdButterfly(values[left_idx], values[right_idx], w_table)
            IN  IF i = left_idx THEN out[1] ELSE out[2]]

RECURSIVE BwdRounds(_, _)
BwdRounds(values, n) == IF n = 0 THEN values ELSE BwdRound(BwdRounds(values, n - 1), n - 1)

(* BwdFinal without the multiplication by INV_D *)
BwdFinalUnscaled(values) ==
    [i \in 0 .. (nttD - 1) |-> mm256_reduce_half(values[i], mm256_set1_epi64x(nttN))]

(* the last loop: every lane multiplied by INV_D and reduced by N *)
BwdFinal(values) ==
    [i \in 0 .. (nttD - 1) |->
        mm256_reduce_half(
            mm256_mod_mul32(values[i], mm256_set1_epi64x(INV_D),
                            mm256_set1_epi64x(INV_D_RATIO32), mm256_set1_epi64x(-nttN)),
            mm256_set1_epi64x(nttN))]

ntt_neg_backward(values) == BwdFinal(BwdRounds(values, LOG_D))

(* `x - y` of some backward butterfly is below zero and the u64           *)
(* subtraction wraps before 2N is added.  The tests of ntt.rs meet this   *)
(* on their own inputs, so they pass only in a build whose arithmetic     *)
(* wraps: that is the arithmetic of WrapLane.                             *)
BwdSubOverflows(values) ==
    \E round \in 0 .. (LOG_D - 1) :
        LET cur == BwdRounds(values, round)
            block_half_stride == 2 ^ round
        IN  \E i \in 0 .. (nttD - 1) :
                /\ (i % (2 * block_half_stride)) < block_half_stride
                /\ cur[i] < cur[i + block_half_stride]

(* ---- the inputs ---- *)
(* degrees and NTT-friendly moduli (2D divides N - 1, N < 2^(WordBits - 2)) *)
NttParams == {<<4, 17>>, <<4, 241>>, <<8, 17>>, <<8, 241>>}
(* find_sqrt_primitive_root(D, N) is some primitive 2D-th root of unity *)
PrimitiveRoots(d, n) == {w \in 1 .. (n - 1) : PowMod(w, d, n) = n - 1}
MaxMonoCoeff == 1
Affine(d, n, s0, s1) == [i \in 0 .. (d - 1) |-> (s0 + s1 * i) % n]
Mono(d, n, k, c) == [i \in 0 .. (d - 1) |-> IF i = k THEN c % n ELSE 0]
NttInputs(d, n) ==
    {Affine(d, n, s0, s1) : s0 \in {0, 1, 5, n - 1}, s1 \in {0, 1, n - 1}}
    \cup {Mono(d, n, k, c) : k \in 0 .. (d - 1), c \in (1 .. MaxMonoCoeff) \cup {n - 1}}

NttSecondInputs(d, n) ==
    {Affine(d, n, s0, 1) : s0 \in {1, 5}}
    \cup {Affine(d, n, n - 1, 0)}
    \cup {Mono(d, n, k, n - 1) : k \in 0 .. (d - 1)}

NoValues == << >>

NttIdle ==
    /\ nttPc = "idle"
    /\ nttD = 0 /\ nttN = 0 /\ nttW = 0 /\ nttTable = << >>
    /\ va = NoValues /\ vb = NoValues /\ fa = NoValues /\ fb = NoValues
    /\ rt = NoValues /\ prod = NoValues

NttInit ==
    /\ nttPc = "start"
    /\ \E p \in NttParams :
          /\ nttD = p[1]
          /\ nttN = p[2]
          /\ nttW \in PrimitiveRoots(p[1], p[2])
          /\ nttTable = NTTTable
          /\ va \in NttInputs(p[1], p[2])
          /\ vb \in NttSecondInputs(p[1], p[2])
    /\ fa = NoValues /\ fb = NoValues /\ rt = NoValues /\ prod = NoValues

(* test_ntt_neg_mul / test_ntt_neg_inverses, step by step *)
NttForwardA ==
    /\ nttPc = "start"
    /\ fa' = ntt_neg_forward(va)
    /\ nttPc' = "forward_a"
    /\ UNCHANGED <<notNtt, nttD, nttN, nttW, nttTable, va, vb, fb, rt, prod>>

NttForwardB ==
    /\ nttPc = "forward_a"
    /\ fb' = ntt_neg_forward(vb)
    /\ nttPc' = "forward_b"
    /\ UNCHANGED <<notNtt, nttD, nttN, nttW, nttTable, va, vb, fa, rt, prod>>

NttBackward ==
    /\ nttPc = "forward_b"
    /\ rt' = ntt_neg_backward(fa)
    /\ nttPc' = "backward"
    /\ UNCHANGED <<notNtt, nttD, nttN, nttW, nttTable, va, vb, fa, fb, prod>>

LaneProduct(x, y) == [i \in 0 .. (nttD - 1) |-> IntModMul(x[i], y[i])]

NttMulBackward ==
    /\ nttPc = "backward"
    /\ prod' = ntt_neg_backward(LaneProduct(fa, fb))
    /\ nttPc' = "done"
    /\ UNCHANGED <<notNtt, nttD, nttN, nttW, nttTable, va, vb, fa, fb, rt>>

NttNext ==
    \/ NttForwardA
    \/ NttForwardB
    \/ NttBackward
    \/ NttMulBackward

----------------------------------------------------------------------------
(***************************************************************************)
(*                 THE GADGET MATRIX AND ITS INVERSE                       *)
(*                   src/fhe-psi/src/fhe/gadget.rs                         *)
(* The ring is Z_N<Q>, as in the tests of gadget.rs.  A matrix is a        *)
(* function on <<row, column>>.                                            *)
(***************************************************************************)
(* ---- math::matrix, math::z_n, math::utils ---- *)
MatrixZero(rows, cols) == [e \in (0 .. (rows - 1)) \X (0 .. (cols - 1)) |-> 0]
ZnFrom(x) == x % gQ
RECURSIVE DotFrom(_, _, _, _, _)
(* the sum over t < n of a[r, t] * b[t, c] *)
DotFrom(a, b, r, c, n) ==
    IF n = 0 THEN 0 ELSE (DotFrom(a, b, r, c, n - 1) + a[<<r, n - 1>>] * b[<<n - 1, c>>]) % gQ
MatrixMul(a, b, rows, inner, cols) ==
    [e \in (0 .. (rows - 1)) \X (0 .. (cols - 1)) |-> DotFrom(a, b, e[1], e[2], inner)]
RECURSIVE ceil_log(_, _)
(* the least l with base^l >= x *)
ceil_log(base, x) == IF x <= 1 THEN 0 ELSE 1 + ceil_log(base, (x + base - 1) \div base)
(* the norm of an element of Z_N<Q>: the distance to zero *)
ZnNorm(v) == Min(v, gQ - v)

(* ---- RingElementDecomposable for Z_N<Q> ---- *)
(* the signed digits lie in [-z/2, z/2): from -DigitHalf to BASE - 1 - DigitHalf *)
DigitHalf == G_BASE \div 2
(* the least integer that LEN such digits can write *)
DigitWindowLow == 0 - DigitHalf * (((G_BASE ^ G_LEN) - 1) \div (G_BASE - 1))
(* the representative of v that LEN signed digits can write *)
DigitRepresentative(v) ==
    DigitWindowLow + ((v - DigitWindowLow) % gQ)
SignedDigit(r) == ((r + DigitHalf) % G_BASE) - DigitHalf
RECURSIVE SignedDigits(_, _)
(* the signed base-z digits of r, least significant first *)
SignedDigits(r, len) ==
    IF len = 0 THEN << >>
    ELSE <<SignedDigit(r)>> \o SignedDigits((r - SignedDigit(r)) \div G_BASE, len - 1)
(* a signed digit lifted into Z_N<Q> *)
LiftDigit(d) == d % gQ
(* the digits of self written into column j of mat from row i on; the    *)
(* write of a row that mat does not have aborts the run                  *)
decompose_into_mat(self, mat, rows, i, j) ==
    LET digits == SignedDigits(DigitRepresentative(self), G_LEN)
    IN  IF i + G_LEN > rows
        THEN None
        ELSE Some([e \in DOMAIN mat |->
                      IF e[2] = j /\ e[1] >= i /\ e[1] < i + G_LEN
                      THEN LiftDigit(digits[e[1] - i + 1])
                      ELSE mat[e]])

(* ---- build_gadget ---- *)
BuildGadgetBegin ==
    /\ gPc = "start"
    /\ gadget' = MatrixZero(gN, gM)
    /\ bg_x' = 1
    /\ bg_i' = 0
    /\ bg_j' = 0
    /\ gPc' = "building"
    /\ UNCHANGED <<notGadget, gN, gM, gK, gQ, G_BASE, G_LEN, gm, m_expanded, g_product>>

(* the test that closes a block of G_LEN columns, one at the first column *)
EndOfBlockAtFirst(j) == j % G_LEN = 0
(* the test that closes a block of G_LEN columns *)
EndOfBlock(j) == j % G_LEN = G_LEN - 1

(* one iteration of `for j in 0..M` *)
BuildGadgetStep ==
    /\ gPc = "building"
    /\ bg_j < gM
    /\ IF bg_i >= gN
       THEN /\ gPc' = "panic_build"
            /\ UNCHANGED <<gadget, bg_x, bg_i, bg_j>>
       ELSE /\ gadget' = [gadget EXCEPT ![<<bg_i, bg_j>>] = ZnFrom(bg_x)]
            /\ IF EndOfBlock(bg_j)
               THEN bg_i' = bg_i + 1 /\ bg_x' = 1
               ELSE bg_i' = bg_i /\ bg_x' = bg_x * G_BASE
            /\ bg_j' = bg_j + 1
            /\ gPc' = gPc
    /\ UNCHANGED <<notGadget, gN, gM, gK, gQ, G_BASE, G_LEN, gm, m_expanded, g_product>>

BuildGadgetReturn ==
    /\ gPc = "building"
    /\ bg_j = gM
    /\ gPc' = "built"
    /\ UNCHANGED <<notGadget, gN, gM, gK, gQ, G_BASE, G_LEN, bg_x, bg_i, bg_j, gadget,
                   gm, m_expanded, g_product>>

(* ---- gadget_inverse ---- *)
(* the first row of the digits of an entry of row i, without the scaling *)
DigitRowUnscaled(i) == i
(* the first row of the digits of an entry of row i *)
DigitRow(i) == i * G_LEN

RECURSIVE GadgetInverseLoop(_, _, _)
(* m_expanded after the first n entries of m, in the order of the loops *)
GadgetInverseLoop(m, cols, n) ==
    IF n = 0 THEN Some(MatrixZero(gM, cols))
    ELSE LET before == GadgetInverseLoop(m, cols, n - 1)
             i == (n - 1) \div cols
             j == (n - 1) % cols
         IN  IF IsSome(before)
             THEN decompose_into_mat(m[<<i, j>>], Unwrap(before), gM, DigitRow(i), j)
             ELSE None
(* gadget_inverse with `for i in 0..1` *)
gadget_inverse_first_row(m, cols) == GadgetInverseLoop(m, cols, cols)
gadget_inverse(m, cols) == GadgetInverseLoop(m, cols, gN * cols)

(* the matrix of the test gadget_inverse_is_correct: K = M *)
TestR == [e \in (0 .. (gN - 1)) \X (0 .. (gM - 1)) |-> ZnFrom(e[1] * gM + e[2])]
GadgetColumns == 1
GadgetInputs ==
    {<<GadgetColumns, m>> : m \in [(0 .. (gN - 1)) \X (0 .. (GadgetColumns - 1)) -> 0 .. (gQ - 1)]}
    \cup {<<gM, TestR>>}

GadgetInverse ==
    /\ gPc = "built"
    /\ \E input \in GadgetInputs :
          /\ gK' = input[1]
          /\ gm' = input[2]
          /\ LET ret == gadget_inverse(input[2], input[1])
             IN  IF IsSome(ret)
                 THEN m_expanded' = Unwrap(ret) /\ gPc' = "inverted"
                 ELSE m_expanded' = m_expanded /\ gPc' = "panic_decompose"
    /\ UNCHANGED <<notGadget, gN, gM, gQ, G_BASE, G_LEN, bg_x, bg_i, bg_j, gadget, g_product>>

(* &G * &R_inv *)
GadgetTimesInverse ==
    /\ gPc = "inverted"
    /\ g_product' = MatrixMul(gadget, m_expanded, gN, gM, gK)
    /\ gPc' = "multiplied"
    /\ UNCHANGED <<notGadget, gN, gM, gK, gQ, G_BASE, G_LEN, bg_x, bg_i, bg_j, gadget,
                   gm, m_expanded>>

(* the rows N, the moduli Q and the bases z; M is N * G_LEN or one off *)
GadgetRows == {1, 2, 3}
GadgetRings == {<<11, 2>>, <<11, 3>>, <<11, 4>>}

GadgetIdle ==
    /\ gPc = "idle"
    /\ gN = 0 /\ gM = 0 /\ gK = 0 /\ gQ = 0 /\ G_BASE = 0 /\ G_LEN = 0
    /\ bg_x = 0 /\ bg_i = 0 /\ bg_j = 0
    /\ gadget = << >> /\ gm = << >> /\ m_expanded = << >> /\ g_product = << >>

GadgetInit ==
    /\ gPc = "start"
    /\ gN \in GadgetRows
    /\ \E ring \in GadgetRings :
          /\ gQ = ring[1]
          /\ G_BASE = ring[2]
          /\ G_LEN = ceil_log(ring[2], ring[1])
    /\ gM \in {gN * G_LEN - 1, gN * G_LEN, gN * G_LEN + 1}
    /\ gK = 0
    /\ bg_x = 0 /\ bg_i = 0 /\ bg_j = 0
    /\ gadget = << >> /\ gm = << >> /\ m_expanded = << >> /\ g_product = << >>

GadgetNext ==
    \/ BuildGadgetBegin
    \/ BuildGadgetStep
    \/ BuildGadgetReturn
    \/ GadgetInverse
    \/ GadgetTimesInverse

----------------------------------------------------------------------------
(***************************************************************************)
(*                      THE SINGLE-QUERY PIR RUN                           *)
(*                  src/fhe-psi/src/pir/example.rs                         *)
(* run_spiral drives the protocol of trait SPIRAL.  The protocol is        *)
(* followed on the plaintexts the ciphertexts carry, without noise: a      *)
(* polynomial is a function from the coefficient positions to Z_P.         *)
(***************************************************************************)
(* SPIRAL_TEST_PARAMS, at a smaller size *)
PIR_P == 256
D_RECORD == 4
PACK_RATIO == 8
PACK_RATIO_SMALL == 4
ETA1 == 1
ETA2 == 2
Z_FOLD == 2
PIR_D == PACK_RATIO * D_RECORD
D_SWITCH == PACK_RATIO_SMALL * D_RECORD
PACKED_DB_SIZE == (2 ^ ETA1) * (Z_FOLD ^ ETA2)
PIR_DB_SIZE == PACKED_DB_SIZE * PACK_RATIO

(* run_spiral: byte c of record i *)
RecordByte(i, c) ==
    CASE c = 0 -> i % 256
      [] c = 1 -> (i \div 256) % 256
      [] c = 2 -> 42
      [] c = 3 -> 0
      [] c = 4 -> i % 100
      [] c = 5 -> (i \div 100) % 100
      [] c = 6 -> ((i \div 100) \div 100) % 100
      [] c = 7 -> (((i \div 100) \div 100) \div 100) % 100
      [] OTHER -> 0
RunSpiralRecords ==
    [i \in 0 .. (PIR_DB_SIZE - 1) |-> [c \in 0 .. (D_RECORD - 1) |-> RecordByte(i, c)]]

(* ---- trait SPIRAL: preprocess, query, answer, response_compress, response_extract ---- *)
(* coefficient j of record k of a bundle sits at j * PACK_RATIO + bit_reverse(k) *)
PackBundle(recs, b) ==
    [c \in 0 .. (PIR_D - 1) |->
        LET j == c \div PACK_RATIO
            k == reverse_bits(PACK_RATIO, c % PACK_RATIO)
        IN  recs[b * PACK_RATIO + k][j] % PIR_P]
preprocess(recs) == [b \in 0 .. (PACKED_DB_SIZE - 1) |-> PackBundle(recs, b)]

(* the selectors: a one-hot vector over the first dimension, the fold     *)
(* digits of the second component, and the rotation that brings the       *)
(* record's group of PACK_RATIO_SMALL records onto the positions that the *)
(* switch to degree D_SWITCH keeps                                        *)
query(i) ==
    LET packed == i \div PACK_RATIO
        first == packed \div (Z_FOLD ^ ETA2)
        second == packed % (Z_FOLD ^ ETA2)
    IN  [one_hot |-> [f \in 0 .. ((2 ^ ETA1) - 1) |-> IF f = first THEN 1 ELSE 0],
         digits |-> [r \in 0 .. (ETA2 - 1) |-> (second \div (Z_FOLD ^ (ETA2 - 1 - r))) % Z_FOLD],
         rotation |-> reverse_bits(PACK_RATIO \div PACK_RATIO_SMALL,
                                (i % PACK_RATIO) \div PACK_RATIO_SMALL)]

RECURSIVE FirstDimSum(_, _, _, _, _)
(* the sum over f < n of one_hot[f] * db[f, second], at coefficient c *)
FirstDimSum(database, one_hot, second, c, n) ==
    IF n = 0 THEN 0
    ELSE (FirstDimSum(database, one_hot, second, c, n - 1)
          + one_hot[n - 1] * database[(n - 1) * (Z_FOLD ^ ETA2) + second][c]) % PIR_P
(* answer, step 1: the inner product with the first dimension *)
AnswerFirstDim(database, qu) ==
    [second \in 0 .. ((Z_FOLD ^ ETA2) - 1) |->
        [c \in 0 .. (PIR_D - 1) |->
            FirstDimSum(database, qu.one_hot, second, c, 2 ^ ETA1)]]
(* answer, step 2, one round: halves[0] + digit * (halves[1] - halves[0]) *)
AnswerFold(vec, len, digit) ==
    [t \in 0 .. ((len \div 2) - 1) |->
        [c \in 0 .. (PIR_D - 1) |->
            (vec[t][c] + digit * (vec[t + (len \div 2)][c] - vec[t][c])) % PIR_P]]
(* answer, step 3: the candidate times X^(-rotation) in Z_P[X]/(X^D + 1) *)
AnswerRotate(poly, rotation) ==
    [c \in 0 .. (PIR_D - 1) |->
        IF c + rotation < PIR_D THEN poly[c + rotation]
        ELSE (PIR_P - poly[c + rotation - PIR_D]) % PIR_P]
(* the switch from degree D to degree D_SWITCH undoes include_dim: it     *)
(* keeps the positions that are multiples of D / D_SWITCH                 *)
(* (test_post_process_only)                                               *)
response_compress(poly) ==
    [u \in 0 .. (D_SWITCH - 1) |-> poly[u * (PIR_D \div D_SWITCH)]]
response_extract(resp) == resp

(* ---- run_spiral ---- *)
RECURSIVE SkipStepBy(_, _, _, _)
(* the elements of coeff at positions from, from + step, ... below len *)
SkipStepBy(coeff, len, from, step) ==
    IF from >= len THEN << >>
    ELSE <<coeff[from]>> \o SkipStepBy(coeff, len, from + step, step)
(* the u8 of a coefficient *)
AsU8(x) == x % 256
(* run_spiral's read-out, skipping idx % PACK_RATIO_SMALL coefficients *)
ReadRecordNoReverse(ex, i) ==
    LET bytes == SkipStepBy(ex, D_SWITCH, i % PACK_RATIO_SMALL, 4)
    IN  [c \in 1 .. Len(bytes) |-> AsU8(bytes[c])]
(* run_spiral's read-out of the record from the pir_extracted polynomial *)
ReadRecord(ex, i) ==
    LET bytes == SkipStepBy(ex, D_SWITCH,
                            reverse_bits(PACK_RATIO_SMALL, i % PACK_RATIO_SMALL), 4)
    IN  [c \in 1 .. Len(bytes) |-> AsU8(bytes[c])]

PirPreprocess ==
    /\ pirPc = "start"
    /\ pir_records' = RunSpiralRecords
    /\ pir_db' = preprocess(RunSpiralRecords)
    /\ pirPc' = "preprocessed"
    /\ UNCHANGED <<notPir, pir_idx, pir_q, response_raw, pir_response, pir_extracted, extracted_record>>

PirQuery ==
    /\ pirPc = "preprocessed"
    /\ pir_q' = query(pir_idx)
    /\ pirPc' = "queried"
    /\ UNCHANGED <<notPir, pir_idx, pir_records, pir_db, response_raw, pir_response,
                   pir_extracted, extracted_record>>

PirAnswerFirstDim ==
    /\ pirPc = "queried"
    /\ response_raw' = AnswerFirstDim(pir_db, pir_q)
    /\ pirPc' = "folding"
    /\ UNCHANGED <<notPir, pir_idx, pir_records, pir_db, pir_q, pir_response,
                   pir_extracted, extracted_record>>

FoldLen == Cardinality(DOMAIN response_raw)
RECURSIVE Log(_, _)
Log(base, x) == IF x <= 1 THEN 0 ELSE 1 + Log(base, x \div base)
PirAnswerFold ==
    /\ pirPc = "folding"
    /\ FoldLen > 1
    /\ response_raw' = AnswerFold(response_raw, FoldLen, pir_q.digits[ETA2 - Log(Z_FOLD, FoldLen)])
    /\ UNCHANGED <<notPir, pirPc, pir_idx, pir_records, pir_db, pir_q, pir_response,
                   pir_extracted, extracted_record>>

PirAnswerRotate ==
    /\ pirPc = "folding"
    /\ FoldLen = 1
    /\ response_raw' = [t \in {0} |-> AnswerRotate(response_raw[0], pir_q.rotation)]
    /\ pirPc' = "answered"
    /\ UNCHANGED <<notPir, pir_idx, pir_records, pir_db, pir_q, pir_response,
                   pir_extracted, extracted_record>>

PirResponseCompress ==
    /\ pirPc = "answered"
    /\ pir_response' = response_compress(response_raw[0])
    /\ pirPc' = "compressed"
    /\ UNCHANGED <<notPir, pir_idx, pir_records, pir_db, pir_q, response_raw,
                   pir_extracted, extracted_record>>

PirResponseExtract ==
    /\ pirPc = "compressed"
    /\ pir_extracted' = response_extract(pir_response)
    /\ pirPc' = "pir_extracted"
    /\ UNCHANGED <<notPir, pir_idx, pir_records, pir_db, pir_q, response_raw, pir_response,
                   extracted_record>>

(* the read-out and the comparison with records[idx] *)
PirCheck ==
    /\ pirPc = "pir_extracted"
    /\ LET bytes == ReadRecord(pir_extracted, pir_idx)
       IN  /\ extracted_record' = bytes
           /\ pirPc' = IF Len(bytes) # D_RECORD THEN "panic_try_into"
                       ELSE IF \E c \in 1 .. D_RECORD : bytes[c] # pir_records[pir_idx][c - 1]
                            THEN "error_printed"
                            ELSE "checked"
    /\ UNCHANGED <<notPir, pir_idx, pir_records, pir_db, pir_q, response_raw, pir_response,
                   pir_extracted>>

(* the rest of the closure and of  for i in iter { check(i) } : the timings are *)
(* printed and run_spiral returns, whatever the comparison found             *)
PirReturn ==
    /\ pirPc \in {"checked", "error_printed"}
    /\ pirPc' = "returned"
    /\ UNCHANGED <<notPir, pir_idx, pir_records, pir_db, pir_q, response_raw, pir_response,
                   pir_extracted, extracted_record>>

(* response_extract when the noise of the response exceeds the rounding     *)
(* margin: one coefficient of the decoded polynomial rounds to a neighbour  *)
(* of the plaintext coefficient                                             *)
PirResponseExtractNoisy ==
    /\ pirPc = "compressed"
    /\ \E u \in 0 .. (D_SWITCH - 1), e \in {1, PIR_P - 1} :
          pir_extracted' = [response_extract(pir_response) EXCEPT ![u] = (@ + e) % PIR_P]
    /\ pirPc' = "pir_extracted"
    /\ UNCHANGED <<notPir, pir_idx, pir_records, pir_db, pir_q, response_raw, pir_response,
                   extracted_record>>

PirIdle ==
    /\ pirPc = "idle"
    /\ pir_idx = 0
    /\ pir_records = << >> /\ pir_db = << >> /\ pir_q = << >> /\ response_raw = << >>
    /\ pir_response = << >> /\ pir_extracted = << >> /\ extracted_record = << >>

PirInit ==
    /\ pirPc = "start"
    /\ pir_idx \in 0 .. (PIR_DB_SIZE - 1)
    /\ pir_records = << >> /\ pir_db = << >> /\ pir_q = << >> /\ response_raw = << >>
    /\ pir_response = << >> /\ pir_extracted = << >> /\ extracted_record = << >>

PirNext ==
    \/ PirPreprocess
    \/ PirQuery
    \/ PirAnswerFirstDim
    \/ PirAnswerFold
    \/ PirAnswerRotate
    \/ PirResponseCompress
    \/ PirResponseExtract
    \/ PirCheck
    \/ PirReturn

(* run_spiral with parameters whose noise can exceed the rounding margin *)
PirNoisyNext ==
    \/ PirPreprocess
    \/ PirQuery
    \/ PirAnswerFirstDim
    \/ PirAnswerFold
    \/ PirAnswerRotate
    \/ PirResponseCompress
    \/ PirResponseExtract
    \/ PirResponseExtractNoisy
    \/ PirCheck
    \/ PirReturn

----------------------------------------------------------------------------
(***************************************************************************)
(*                              RING-GSW                                   *)
(*   src/src/fhe/ringgsw_ntt_crt.rs, src/fhe-psi/src/fhe/ringgsw_ntt_crt.rs *)
(* RingGSWNTTCRT delegates to fhe::gsw_utils and to the rounding of        *)
(* math::int_mod; those follow section 4.G of the specification.  The      *)
(* test parameters are N = 2, P = 31, Q = 268369921 * 249561089, G_BASE =  *)
(* 2 and a noise of width 6.4; the model keeps N, takes the first prime    *)
(* for Q and scales P, G_BASE and the noise with it, so that the noise of  *)
(* the deepest circuit of the tests stays below Q / (2P) as it does at the *)
(* test parameters.  The ring is Z_Q, the gadget code's Z_N<Q>.            *)
(***************************************************************************)
GSW_N == 2
GSW_P == 3
GSW_Q == 268369921
GSW_G_BASE == 16
(* the largest absolute value the noise sampler yields *)
GswNoise == 1

(* the representative of v nearest to zero *)
Centered(v) == IF 2 * v > gQ THEN v - gQ ELSE v
(* the product in Z_Q *)
ZqMul(a, b) == (Centered(a) * Centered(b)) % gQ
RECURSIVE ZqDotFrom(_, _, _, _, _)
ZqDotFrom(a, b, r, c, n) ==
    IF n = 0 THEN 0
    ELSE (ZqDotFrom(a, b, r, c, n - 1) + ZqMul(a[<<r, n - 1>>], b[<<n - 1, c>>])) % gQ
(* Matrix<rows, inner, R> * Matrix<inner, cols, R> *)
ZqMatrixMul(a, b, rows, inner, cols) ==
    [e \in (0 .. (rows - 1)) \X (0 .. (cols - 1)) |-> ZqDotFrom(a, b, e[1], e[2], inner)]
ZqMatrixAdd(a, b) == [e \in DOMAIN a |-> (a[e] + b[e]) % gQ]
ZqMatrixScale(a, x) == [e \in DOMAIN a |-> ZqMul(a[e], x)]
identity(n) == [e \in (0 .. (n - 1)) \X (0 .. (n - 1)) |-> IF e[1] = e[2] THEN 1 ELSE 0]

(* ---- math::int_mod: the conversions between Z_P and Z_Q ---- *)
scale_up_into(x, p, q) == (x * (q \div p)) % q
(* floor(p / q * x) *)
round_down_into_floor(x, p, q) == ((p * x) \div q) % p
(* round(p / q * x), a half rounded up *)
round_down_into(x, p, q) == (((2 * p * x) \div q + 1) \div 2) % p

(* ---- what the samplers can yield ---- *)
(* the Gaussian part of the secret key: s_bar, (N - 1) x 1 *)
GswSecrets == (0 - GswNoise) .. GswNoise
(* the uniform rows of A: A_bar, (N - 1) x M *)
GswUniformRows ==
    {[e \in (0 .. (gN - 2)) \X (0 .. (gM - 1)) |-> (7368787 * (e[2] + 1) + e[1]) % gQ]}
(* the Gaussian row e, 1 x M: constant or alternating in sign *)
GswNoiseRows ==
    {[e \in {0} \X (0 .. (gM - 1)) |-> a % gQ] : a \in 1 .. GswNoise}
    \cup {[e \in {0} \X (0 .. (gM - 1)) |-> (IF e[2] % 2 = 0 THEN a ELSE 0 - a) % gQ] :
             a \in 1 .. GswNoise}
(* the binary matrix R, M x M, of the i-th encryption: all ones on stream *)
(* 0, a checkerboard that moves with i on stream 1                        *)
GswStreams == {0, 1}
GswBinary(stream, i) ==
    [e \in (0 .. (gM - 1)) \X (0 .. (gM - 1)) |->
        IF stream = 0 THEN 1 ELSE (e[1] + e[2] + i) % 2]

(* ---- gsw_keygen: <<A, s_T>> ---- *)
gsw_keygen(s_bar, A_bar, e) ==
    LET s_bar_T == [x \in {0} \X (0 .. (gN - 2)) |-> s_bar % gQ]
        last == ZqMatrixAdd(ZqMatrixMul(s_bar_T, A_bar, 1, gN - 1, gM), e)
    IN  <<[x \in (0 .. (gN - 1)) \X (0 .. (gM - 1)) |->
              IF x[1] < gN - 1 THEN A_bar[x] ELSE last[<<0, x[2]>>]],
          [x \in {0} \X (0 .. (gN - 1)) |->
              IF x[2] < gN - 1 THEN s_bar % gQ ELSE (0 - 1) % gQ]>>

(* ---- gsw_encrypt_pk: A * R + mu * G ---- *)
gsw_encrypt_pk(A, mu, R) ==
    ZqMatrixAdd(ZqMatrixMul(A, R, gN, gM, gM), ZqMatrixScale(gadget, mu))
(* RingGSWNTTCRT::encrypt: mu is lifted from Z_P into the ring *)
encrypt(pk, mu, R) == gsw_encrypt_pk(pk, mu % gQ, R)

(* ---- gsw_half_decrypt: mu * (Q / P) + noise ---- *)
(* the last entry of s_T * ct * G^-1((Q / P) * I), not negated *)
gsw_half_decrypt_unnegated(sk, ct) ==
    LET g_inv == Unwrap(gadget_inverse(ZqMatrixScale(identity(gN), gQ \div GSW_P), gN))
        s_ct == ZqMatrixMul(sk, ct, 1, gN, gM)
    IN  ZqMatrixMul(s_ct, g_inv, 1, gM, gN)[<<0, gN - 1>>]
gsw_half_decrypt(sk, ct) ==
    (0 - gsw_half_decrypt_unnegated(sk, ct)) % gQ
(* RingGSWNTTCRT::decrypt *)
decrypt(sk, ct) == round_down_into(gsw_half_decrypt(sk, ct), GSW_P, gQ)

(* ---- the homomorphic operations ---- *)
(* the sum without its right operand *)
ciphertext_add_left_only(lhs, rhs) == lhs
(* lhs + rhs *)
ciphertext_add(lhs, rhs) == ZqMatrixAdd(lhs, rhs)
(* lhs * gadget_inverse(rhs); rhs_expanded is gadget_inverse(rhs), which *)
(* the step before has computed                                          *)
ciphertext_mul(lhs, rhs_expanded) == ZqMatrixMul(lhs, rhs_expanded, gN, gM, gM)
(* lhs * gadget_inverse(G * rhs_q), likewise *)
scalar_ciphertext_mul(lhs, rhs_q_expanded) == ZqMatrixMul(lhs, rhs_q_expanded, gN, gM, gM)
add_hom(lhs, rhs) == ciphertext_add(lhs, rhs)
mul_hom(lhs, rhs_expanded) == ciphertext_mul(lhs, rhs_expanded)
mul_scalar(lhs, rhs_expanded) == scalar_ciphertext_mul(lhs, rhs_expanded)

(* ---- the tests of RingGSWNTTCRTTest ---- *)
(* let (A, s_T) = RingGSWNTTCRTTest::keygen(); the gadget is a constant of the type *)
GswKeygen ==
    /\ gswPc = "start"
    /\ gPc = "built"
    /\ \E s_bar \in GswSecrets, A_bar \in GswUniformRows, e \in GswNoiseRows :
          LET key == gsw_keygen(s_bar, A_bar, e)
          IN  pk_A' = key[1] /\ s_T' = key[2]
    /\ gswPc' = "keyed"
    /\ UNCHANGED <<notGsw, rng, gsw_mu, gsw_ct, gsw_pt, pt_add_ct, pt_mul_ct, pt_mul_scalar,
                   ct_hom, ct12, ct34, pt12, pt34, pt1234>>

(* let ct = RingGSWNTTCRTTest::encrypt(&A, &mu) *)
GswEncrypt ==
    /\ \/ gswPc = "keyed" /\ Len(gsw_ct) < 2
       \/ gswPc = "scaled" /\ Len(gsw_ct) < 4
    /\ Len(gsw_pt) = Len(gsw_ct)
    /\ \E mu \in 0 .. (GSW_P - 1) :
          /\ gsw_mu' = Append(gsw_mu, mu)
          /\ gsw_ct' = Append(gsw_ct, encrypt(pk_A, mu, GswBinary(rng, Len(gsw_ct))))
    /\ UNCHANGED <<notGsw, gswPc, rng, s_T, pk_A, gsw_pt, pt_add_ct, pt_mul_ct, pt_mul_scalar,
                   ct_hom, ct12, ct34, pt12, pt34, pt1234>>

(* let pt = RingGSWNTTCRTTest::decrypt(&s_T, &ct) *)
GswDecrypt ==
    /\ Len(gsw_pt) < Len(gsw_ct)
    /\ gsw_pt' = Append(gsw_pt, decrypt(s_T, gsw_ct[Len(gsw_ct)]))
    /\ UNCHANGED <<notGsw, gswPc, rng, s_T, pk_A, gsw_mu, gsw_ct, pt_add_ct, pt_mul_ct,
                   pt_mul_scalar, ct_hom, ct12, ct34, pt12, pt34, pt1234>>

(* add_hom(&ct1, &ct2) *)
GswAddHom ==
    /\ gswPc = "keyed"
    /\ Len(gsw_pt) = 2
    /\ ct_hom' = add_hom(gsw_ct[1], gsw_ct[2])
    /\ gswPc' = "add_hom"
    /\ UNCHANGED <<notGsw, rng, s_T, pk_A, gsw_mu, gsw_ct, gsw_pt, pt_add_ct, pt_mul_ct,
                   pt_mul_scalar, ct12, ct34, pt12, pt34, pt1234>>

(* the right operand of the product that comes next: ct2, G * mu2, ct2,  *)
(* ct4, ct34                                                             *)
GswRightOperand ==
    CASE gswPc = "added" -> gsw_ct[2]
      [] gswPc = "multiplied" -> ZqMatrixScale(gadget, gsw_mu[2] % gQ)
      [] gswPc = "scaled" -> gsw_ct[2]
      [] gswPc = "ct12" -> gsw_ct[4]
      [] gswPc = "ct34" -> ct34
GswExpanded(stage) ==
    CASE stage = "added" -> "mul_hom_expanded"
      [] stage = "multiplied" -> "mul_scalar_expanded"
      [] stage = "scaled" -> "ct12_expanded"
      [] stage = "ct12" -> "ct34_expanded"
      [] stage = "ct34" -> "ct1234_expanded"

(* the first half of ciphertext_mul and of scalar_ciphertext_mul:        *)
(* gadget_inverse::<R, N, M, M, G_BASE, G_LEN>(rhs)                      *)
GswGadgetInverse ==
    /\ gswPc \in {"added", "multiplied", "scaled", "ct12", "ct34"}
    /\ gswPc = "scaled" => Len(gsw_pt) = 4
    /\ gK' = gM
    /\ gm' = GswRightOperand
    /\ m_expanded' = Unwrap(gadget_inverse(GswRightOperand, gM))
    /\ gswPc' = GswExpanded(gswPc)
    /\ UNCHANGED <<ckVars, nttVars, pirVars, regevVars, shoupVars, cycloVars,
                   bflyVars, gPc,
                   gN, gM, gQ, G_BASE, G_LEN, bg_x, bg_i,
                   bg_j, gadget, g_product>>
    /\ UNCHANGED <<rng, s_T, pk_A, gsw_mu, gsw_ct, gsw_pt, pt_add_ct, pt_mul_ct,
                   pt_mul_scalar, ct_hom, ct12, ct34, pt12, pt34, pt1234>>

(* mul_hom(&ct1, &ct2) *)
GswMulHom ==
    /\ gswPc = "mul_hom_expanded"
    /\ ct_hom' = mul_hom(gsw_ct[1], m_expanded)
    /\ gswPc' = "mul_hom"
    /\ UNCHANGED <<notGsw, rng, s_T, pk_A, gsw_mu, gsw_ct, gsw_pt, pt_add_ct, pt_mul_ct,
                   pt_mul_scalar, ct12, ct34, pt12, pt34, pt1234>>

(* mul_scalar(&ct1, &mu2) *)
GswMulScalar ==
    /\ gswPc = "mul_scalar_expanded"
    /\ ct_hom' = mul_scalar(gsw_ct[1], m_expanded)
    /\ gswPc' = "mul_scalar"
    /\ UNCHANGED <<notGsw, rng, s_T, pk_A, gsw_mu, gsw_ct, gsw_pt, pt_add_ct, pt_mul_ct,
                   pt_mul_scalar, ct12, ct34, pt12, pt34, pt1234>>

(* homomorphism_is_correct: decrypt(&s_T, &(..)) of the ciphertext just computed *)
GswDecryptHom ==
    /\ gswPc \in {"add_hom", "mul_hom", "mul_scalar"}
    /\ pt_add_ct' = IF gswPc = "add_hom" THEN decrypt(s_T, ct_hom) ELSE pt_add_ct
    /\ pt_mul_ct' = IF gswPc = "mul_hom" THEN decrypt(s_T, ct_hom) ELSE pt_mul_ct
    /\ pt_mul_scalar' = IF gswPc = "mul_scalar" THEN decrypt(s_T, ct_hom) ELSE pt_mul_scalar
    /\ gswPc' = CASE gswPc = "add_hom" -> "added"
                  [] gswPc = "mul_hom" -> "multiplied"
                  [] gswPc = "mul_scalar" -> "scaled"
    /\ UNCHANGED <<notGsw, rng, s_T, pk_A, gsw_mu, gsw_ct, gsw_pt, ct_hom,
                   ct12, ct34, pt12, pt34, pt1234>>

(* let ct12 = mul_hom(&ct1, &ct2) *)
GswMul12 ==
    /\ gswPc = "ct12_expanded"
    /\ ct12' = mul_hom(gsw_ct[1], m_expanded)
    /\ gswPc' = "ct12"
    /\ UNCHANGED <<notGsw, rng, s_T, pk_A, gsw_mu, gsw_ct, gsw_pt, pt_add_ct, pt_mul_ct,
                   pt_mul_scalar, ct_hom, ct34, pt12, pt34, pt1234>>

(* let ct34 = mul_hom(&ct3, &ct4) *)
GswMul34 ==
    /\ gswPc = "ct34_expanded"
    /\ ct34' = mul_hom(gsw_ct[3], m_expanded)
    /\ gswPc' = "ct34"
    /\ UNCHANGED <<notGsw, rng, s_T, pk_A, gsw_mu, gsw_ct, gsw_pt, pt_add_ct, pt_mul_ct,
                   pt_mul_scalar, ct_hom, ct12, pt12, pt34, pt1234>>

(* let ct1234 = mul_hom(&ct12, &ct34) *)
GswMul1234 ==
    /\ gswPc = "ct1234_expanded"
    /\ ct_hom' = mul_hom(ct12, m_expanded)
    /\ gswPc' = "ct1234"
    /\ UNCHANGED <<notGsw, rng, s_T, pk_A, gsw_mu, gsw_ct, gsw_pt, pt_add_ct, pt_mul_ct,
                   pt_mul_scalar, ct12, ct34, pt12, pt34, pt1234>>

(* homomorphism_mul_multiple_correct: pt12, pt34 and pt1234 *)
GswDecryptMultiple ==
    /\ gswPc = "ct1234"
    /\ pt12' = decrypt(s_T, ct12)
    /\ pt34' = decrypt(s_T, ct34)
    /\ pt1234' = decrypt(s_T, ct_hom)
    /\ gswPc' = "done"
    /\ UNCHANGED <<notGsw, rng, s_T, pk_A, gsw_mu, gsw_ct, gsw_pt, pt_add_ct, pt_mul_ct,
                   pt_mul_scalar, ct_hom, ct12, ct34>>

GswIdle ==
    /\ gswPc = "idle"
    /\ rng = 0
    /\ s_T = << >> /\ pk_A = << >> /\ gsw_mu = << >> /\ gsw_ct = << >> /\ gsw_pt = << >>
    /\ pt_add_ct = << >> /\ pt_mul_ct = << >> /\ pt_mul_scalar = << >>
    /\ ct_hom = << >> /\ ct12 = << >> /\ ct34 = << >> /\ pt12 = << >> /\ pt34 = << >> /\ pt1234 = << >>

GswInit ==
    /\ gswPc = "start"
    /\ rng \in GswStreams
    /\ s_T = << >> /\ pk_A = << >> /\ gsw_mu = << >> /\ gsw_ct = << >> /\ gsw_pt = << >>
    /\ pt_add_ct = << >> /\ pt_mul_ct = << >> /\ pt_mul_scalar = << >>
    /\ ct_hom = << >> /\ ct12 = << >> /\ ct34 = << >> /\ pt12 = << >> /\ pt34 = << >> /\ pt1234 = << >>

(* the gadget of the type: build_gadget::<R, N, M, G_BASE, G_LEN> with M = N * G_LEN *)
GswGadgetInit ==
    /\ gPc = "start"
    /\ gN = GSW_N
    /\ gQ = GSW_Q
    /\ G_BASE = GSW_G_BASE
    /\ G_LEN = ceil_log(GSW_G_BASE, GSW_Q)
    /\ gM = GSW_N * ceil_log(GSW_G_BASE, GSW_Q)
    /\ gK = 0
    /\ bg_x = 0 /\ bg_i = 0 /\ bg_j = 0
    /\ gadget = << >> /\ gm = << >> /\ m_expanded = << >> /\ g_product = << >>

GswNext ==
    \/ BuildGadgetBegin
    \/ BuildGadgetStep
    \/ BuildGadgetReturn
    \/ GswKeygen
    \/ GswEncrypt
    \/ GswDecrypt
    \/ GswAddHom
    \/ GswGadgetInverse
    \/ GswMulHom
    \/ GswMulScalar
    \/ GswDecryptHom
    \/ GswMul12
    \/ GswMul34
    \/ GswMul1234
    \/ GswDecryptMultiple

----------------------------------------------------------------------------
(***************************************************************************)
(*                  ROUNDING BETWEEN Z_P AND Z_Q                           *)
(*       src/fhe-psi/src/pir/example.rs (test_regev), and decrypt of       *)
(*       src/src/fhe/ringgsw_ntt_crt.rs                                    *)
(* scale_up_into and round_down_into are those of the GSW part.  The       *)
(* encoding is followed on its phase: decode_regev(encode_regev(m)) is m   *)
(* plus an error e.                                                        *)
(***************************************************************************)
(* the moduli <<P, Q>> with Q >= 2 * P * P; P divides Q in one of them *)
RegevRings == {<<2, 17>>, <<3, 31>>, <<4, 64>>, <<4, 61>>, <<5, 97>>}
(* the errors: every e with |e| <= Q / (2P) *)
RegevErrors(p, q) == (0 - (q \div (2 * p))) .. (q \div (2 * p))

(* mu.scale_up_into() *)
RegevScaleUp ==
    /\ regevPc = "start"
    /\ regev_scaled' = scale_up_into(regev_mu, regev_p, regev_q)
    /\ regevPc' = "scaled"
    /\ UNCHANGED <<notRegev, regev_p, regev_q, regev_mu, regev_e, regev_phase, regev_decoded>>

(* decode_regev(&s, &encode_regev(&s, ..)) *)
RegevEncodeDecode ==
    /\ regevPc = "scaled"
    /\ regev_phase' = (regev_scaled + regev_e) % regev_q
    /\ regevPc' = "decoded"
    /\ UNCHANGED <<notRegev, regev_p, regev_q, regev_mu, regev_e, regev_scaled, regev_decoded>>

(* .round_down_into() *)
RegevRoundDown ==
    /\ regevPc = "decoded"
    /\ regev_decoded' = round_down_into(regev_phase, regev_p, regev_q)
    /\ regevPc' = "done"
    /\ UNCHANGED <<notRegev, regev_p, regev_q, regev_mu, regev_e, regev_scaled, regev_phase>>

RegevIdle ==
    /\ regevPc = "idle"
    /\ regev_p = 0 /\ regev_q = 0 /\ regev_mu = 0 /\ regev_e = 0
    /\ regev_scaled = 0 /\ regev_phase = 0 /\ regev_decoded = 0

RegevInit ==
    /\ regevPc = "start"
    /\ \E ring \in RegevRings :
          /\ regev_p = ring[1]
          /\ regev_q = ring[2]
          /\ regev_mu \in 0 .. (ring[1] - 1)
          /\ regev_e \in RegevErrors(ring[1], ring[2])
    /\ regev_scaled = 0 /\ regev_phase = 0 /\ regev_decoded = 0

RegevNext ==
    \/ RegevScaleUp
    \/ RegevEncodeDecode
    \/ RegevRoundDown

----------------------------------------------------------------------------
(***************************************************************************)
(*            _mm256_mod_mul32 AND _mm256_reduce_half ON THEIR INPUTS      *)
(*                   src/fhe-psi/src/math/ntt.rs                           *)
(* The modulus is the N of the NTT table (nttN).  _mm256_mod_mul32         *)
(* requires N < 2^(WordBits - 2) and lhs in [0, 4N); _mm256_reduce_half    *)
(* requires modulus < 2^(WordBits - 1).                                    *)
(***************************************************************************)
ShoupModuli == {2, 17, 97, 255}
ReduceModuli == {3, 256, 511}

ShoupModMul ==
    /\ shoupPc = "mul"
    /\ shoup_value' = mm256_mod_mul32(shoup_lhs, shoup_rhs, get_ratio32(shoup_rhs),
                                      mm256_set1_epi64x(0 - nttN))
    /\ shoupPc' = "multiplied"
    /\ UNCHANGED <<notShoup, shoup_lhs, shoup_rhs, shoup_reduced>>

ShoupReduceProduct ==
    /\ shoupPc = "multiplied"
    /\ shoup_reduced' = mm256_reduce_half(shoup_value, mm256_set1_epi64x(nttN))
    /\ shoupPc' = "done"
    /\ UNCHANGED <<notShoup, shoup_lhs, shoup_rhs, shoup_value>>

ShoupReduceHalf ==
    /\ shoupPc = "reduce"
    /\ shoup_reduced' = mm256_reduce_half(shoup_value, mm256_set1_epi64x(nttN))
    /\ shoupPc' = "reduced"
    /\ UNCHANGED <<notShoup, shoup_lhs, shoup_rhs, shoup_value>>

ShoupIdle ==
    /\ shoupPc = "idle"
    /\ shoup_lhs = 0 /\ shoup_rhs = 0 /\ shoup_value = 0 /\ shoup_reduced = 0

ShoupInit ==
    \/ /\ shoupPc = "mul"
       /\ nttN \in ShoupModuli
       /\ shoup_lhs \in 0 .. (4 * nttN - 1)
       /\ shoup_rhs \in 0 .. (nttN - 1)
       /\ shoup_value = 0 /\ shoup_reduced = 0
    \/ /\ shoupPc = "reduce"
       /\ nttN \in ReduceModuli
       /\ shoup_value \in 0 .. (2 * nttN - 1)
       /\ shoup_lhs = 0 /\ shoup_rhs = 0 /\ shoup_reduced = 0

(* the NTT itself is not run: only its modulus is set *)
ShoupNttInit ==
    /\ nttPc = "idle"
    /\ nttD = 0 /\ nttW = 0 /\ nttTable = << >>
    /\ va = NoValues /\ vb = NoValues /\ fa = NoValues /\ fb = NoValues
    /\ rt = NoValues /\ prod = NoValues

ShoupNext ==
    \/ ShoupModMul
    \/ ShoupReduceProduct
    \/ ShoupReduceHalf

----------------------------------------------------------------------------
(***************************************************************************)
(*        ONE FORWARD BUTTERFLY, BY THE SCALAR AND THE VECTOR PATH         *)
(*              src/fhe-psi/src/math/ntt.rs, lines 131 - 178               *)
(* ntt_neg_forward takes the scalar path when block_left_half_range.len()  *)
(* is below 4 and the four-lane AVX2 path otherwise.  Both are run here on *)
(* the same pair of lanes and the same twiddle.                            *)
(***************************************************************************)
(* the moduli: one with every lane value, one at the top of the range *)
BflySmallModulus == 17
BflyLargeModulus == 241
(* the lanes tried at the large modulus: the ends of [0, N), [N, 2N), [2N, 3N), [3N, 4N) *)
BflyEdgeLanes(n) ==
    UNION {{k * n, k * n + 1, k * n + n \div 2, k * n + n - 1} : k \in 0 .. 3}
BflyEdgeTwiddles(n) == {0, 1, 2, n \div 2, n - 2, n - 1}

BflyIdle ==
    /\ bflyPc = "idle"
    /\ bfly_x = 0 /\ bfly_y = 0 /\ bfly_w = 0
    /\ bfly_scalar = << >> /\ bfly_vector = << >>

BflyInit ==
    /\ bflyPc = "start"
    /\ \/ /\ nttN = BflySmallModulus
          /\ bfly_x \in 0 .. (4 * nttN - 1)
          /\ bfly_y \in 0 .. (4 * nttN - 1)
          /\ bfly_w \in 0 .. (nttN - 1)
       \/ /\ nttN = BflyLargeModulus
          /\ bfly_x \in BflyEdgeLanes(nttN)
          /\ bfly_y \in BflyEdgeLanes(nttN)
          /\ bfly_w \in BflyEdgeTwiddles(nttN)
    /\ bfly_scalar = << >> /\ bfly_vector = << >>

(* lines 131 - 151: the scalar butterfly *)
BflyScalar ==
    /\ bflyPc \in {"start", "vector"}
    /\ bfly_scalar' = FwdScalarButterfly(bfly_x, bfly_y, MulTable(bfly_w))
    /\ bflyPc' = IF bflyPc = "start" THEN "scalar" ELSE "done"
    /\ UNCHANGED <<notBfly, bfly_x, bfly_y, bfly_w, bfly_vector>>

(* lines 152 - 178: the vector butterfly, on the lane that holds the pair *)
BflyVector ==
    /\ bflyPc \in {"start", "scalar"}
    /\ bfly_vector' = FwdVectorButterfly(bfly_x, bfly_y, MulTable(bfly_w))
    /\ bflyPc' = IF bflyPc = "start" THEN "vector" ELSE "done"
    /\ UNCHANGED <<notBfly, bfly_x, bfly_y, bfly_w, bfly_scalar>>

BflyNext ==
    \/ BflyScalar
    \/ BflyVector

----------------------------------------------------------------------------
(***************************************************************************)
(*               THE COEFFICIENT RING  Z_N[X] / (X^D + 1)                  *)
(*                 src/fhe-psi/src/math/z_n_cyclo.rs                       *)
(* Z_N_CycloRaw<D, N> holds coeff: [Z_N<N>; D].  The tests take D = 4 and  *)
(* N = 2^32 - 5; the model keeps D and takes a modulus whose products fit. *)
(* A coefficient array is a function on 0 .. D - 1, a Vec a sequence.      *)
(***************************************************************************)
CYCLO_D == 4
CYCLO_N == 97

(* ---- math::z_n::Z_N<N> and math::polynomial::PolynomialZ_N<N> ---- *)
(* Z_N::from(u64) *)
Z_N_from(a) == a % CYCLO_N
(* PolynomialZ_N::from(Vec<u64>) : the coefficients, lowest degree first *)
PolynomialZ_N_from(v) == [k \in 1 .. Len(v) |-> Z_N_from(v[k])]
RECURSIVE PolyMulCoeff(_, _, _, _)
(* the sum over i < n of a_i * b_(k - i), where both exist *)
PolyMulCoeff(a, b, k, n) ==
    IF n = 0 THEN 0
    ELSE LET i == n - 1
             term == IF i <= k /\ k - i < Len(b) THEN a[i + 1] * b[k - i + 1] ELSE 0
         IN  (PolyMulCoeff(a, b, k, n - 1) + term) % CYCLO_N
(* self_poly *= &rhs_poly : the product in Z_N[X] *)
PolynomialZ_N_mul(a, b) ==
    IF Len(a) = 0 \/ Len(b) = 0 THEN << >>
    ELSE [k \in 1 .. (Len(a) + Len(b) - 1) |-> PolyMulCoeff(a, b, k - 1, Len(a))]

(* ---- conversions ---- *)
(* [0_u64.into(); D] *)
cyclo_zero == [i \in 0 .. (CYCLO_D - 1) |-> Z_N_from(0)]
(* [1_u64.into(); D] *)
cyclo_one == [i \in 0 .. (CYCLO_D - 1) |-> Z_N_from(1)]
(* From<u64> *)
cyclo_from_u64(a) == [cyclo_zero EXCEPT ![0] = Z_N_from(a)]

RECURSIVE cyclo_from_poly_cyclic_loop(_, _)
cyclo_from_poly_cyclic_loop(polynomial, n) ==
    IF n = 0 THEN cyclo_zero
    ELSE LET i == n - 1
             x == polynomial[n]
             coeff == cyclo_from_poly_cyclic_loop(polynomial, n - 1)
         IN  [coeff EXCEPT ![i % CYCLO_D] = (@ + x) % CYCLO_N]
(* every coefficient is added, whatever its degree *)
cyclo_from_poly_cyclic(polynomial) == cyclo_from_poly_cyclic_loop(polynomial, Len(polynomial))

RECURSIVE cyclo_from_poly_loop(_, _)
(* coeff after the first n turns of  for (i, x) in polynomial.coeff_iter().enumerate() *)
cyclo_from_poly_loop(polynomial, n) ==
    IF n = 0 THEN cyclo_zero
    ELSE LET i == n - 1
             x == polynomial[n]
             coeff == cyclo_from_poly_loop(polynomial, n - 1)
         IN  IF (i \div CYCLO_D) % 2 = 0
             THEN [coeff EXCEPT ![i % CYCLO_D] = (@ + x) % CYCLO_N]
             ELSE [coeff EXCEPT ![i % CYCLO_D] = (@ - x) % CYCLO_N]
(* From<PolynomialZ_N<N>> *)
cyclo_from_poly(polynomial) == cyclo_from_poly_loop(polynomial, Len(polynomial))
(* From<Vec<u64>> *)
cyclo_from_vec(coeff) == cyclo_from_poly(PolynomialZ_N_from(coeff))
(* self.coeff.to_vec() *)
cyclo_to_vec(a) == [k \in 1 .. CYCLO_D |-> a[k - 1]]

(* ---- RingElementRef ---- *)
cyclo_mul(lhs, rhs) ==
    LET self_poly == PolynomialZ_N_from(cyclo_to_vec(lhs))
        rhs_poly  == PolynomialZ_N_from(cyclo_to_vec(rhs))
    IN  cyclo_from_poly(PolynomialZ_N_mul(self_poly, rhs_poly))

(* ---- the inputs ---- *)
MaxPolyLen == 6
CycloCoeffs == {0, 1, CYCLO_N - 1}
(* the vectors of test_from_into, and every short vector over CycloCoeffs *)
CycloVecs ==
    {<<42, 6, 1, 0, 5>>, <<37, 6, 1, 0>>, <<41, 6, 1, 0, 5, 0, 0, 0, 1>>}
    \cup UNION {[1 .. n -> CycloCoeffs] : n \in 0 .. MaxPolyLen}
(* the operands of test_ops, the constants and two denser elements *)
CycloSecondVecs ==
    {<<0, 0, 0, 1>>, <<0, 0, 2, 0>>, <<1>>, <<0, 1>>,
     <<CYCLO_N - 1, 5, 0, 1>>, <<1, 1, 1, 1, 1>>}

CycloFrom ==
    /\ cycloPc = "start"
    /\ cyclo_a' = cyclo_from_vec(cyclo_vec)
    /\ cyclo_b' = cyclo_from_vec(cyclo_vec_b)
    /\ cycloPc' = "converted"
    /\ UNCHANGED <<notCyclo, cyclo_vec, cyclo_vec_b, cyclo_prod, cyclo_a_one, cyclo_one_a>>

CycloMul ==
    /\ cycloPc = "converted"
    /\ cyclo_prod' = cyclo_mul(cyclo_a, cyclo_b)
    /\ cycloPc' = "multiplied"
    /\ UNCHANGED <<notCyclo, cyclo_vec, cyclo_vec_b, cyclo_a, cyclo_b, cyclo_a_one, cyclo_one_a>>

CycloMulOne ==
    /\ cycloPc = "multiplied"
    /\ cyclo_a_one' = cyclo_mul(cyclo_a, cyclo_one)
    /\ cyclo_one_a' = cyclo_mul(cyclo_one, cyclo_a)
    /\ cycloPc' = "done"
    /\ UNCHANGED <<notCyclo, cyclo_vec, cyclo_vec_b, cyclo_a, cyclo_b, cyclo_prod>>

CycloIdle ==
    /\ cycloPc = "idle"
    /\ cyclo_vec = << >> /\ cyclo_vec_b = << >> /\ cyclo_a = << >> /\ cyclo_b = << >>
    /\ cyclo_prod = << >> /\ cyclo_a_one = << >> /\ cyclo_one_a = << >>

CycloInit ==
    /\ cycloPc = "start"
    /\ cyclo_vec \in CycloVecs
    /\ cyclo_vec_b \in CycloSecondVecs
    /\ cyclo_a = << >> /\ cyclo_b = << >>
    /\ cyclo_prod = << >> /\ cyclo_a_one = << >> /\ cyclo_one_a = << >>

CycloNext ==
    \/ CycloFrom
    \/ CycloMul
    \/ CycloMulOne

----------------------------------------------------------------------------
(***************************************************************************)
(*                          THE SPECIFICATIONS                             *)
(***************************************************************************)
CuckooIdle ==
    /\ pc = "idle"
    /\ hashed = << >> /\ record_idxs = << >> /\ bucket_layouts = << >> /\ dbs = << >>
    /\ mapping = << >> /\ remaining = << >> /\ cuckoo_ret = <<"running">>
    /\ evictions = 0 /\ actual_idxs = << >> /\ qs = << >> /\ answers = << >>
    /\ response = << >> /\ result = << >>

(* a batch request through the cuckoo layer *)
Init == CuckooInit /\ NttIdle /\ GadgetIdle /\ PirIdle /\ GswIdle /\ RegevIdle /\ ShoupIdle /\ CycloIdle /\ BflyIdle
Next == CuckooNext
Spec == Init /\ [][Next]_vars

(* cuckoo on its inputs *)
InitCuckoo == CuckooCallInit /\ NttIdle /\ GadgetIdle /\ PirIdle /\ GswIdle /\ RegevIdle /\ ShoupIdle /\ CycloIdle /\ BflyIdle
NextCuckoo == CuckooCallNext
SpecCuckoo == InitCuckoo /\ [][NextCuckoo]_vars

(* the NTT on its inputs *)
InitNtt == NttInit /\ CuckooIdle /\ GadgetIdle /\ PirIdle /\ GswIdle /\ RegevIdle /\ ShoupIdle /\ CycloIdle /\ BflyIdle
NextNtt == NttNext
SpecNtt == InitNtt /\ [][NextNtt]_vars

(* the gadget matrix and its inverse *)
InitGadget == GadgetInit /\ CuckooIdle /\ NttIdle /\ PirIdle /\ GswIdle /\ RegevIdle /\ ShoupIdle /\ CycloIdle /\ BflyIdle
NextGadget == GadgetNext
SpecGadget == InitGadget /\ [][NextGadget]_vars

(* the tests of RingGSWNTTCRTTest *)
InitGsw == GswInit /\ GswGadgetInit /\ CuckooIdle /\ NttIdle /\ PirIdle /\ RegevIdle /\ ShoupIdle /\ CycloIdle /\ BflyIdle
NextGsw == GswNext
SpecGsw == InitGsw /\ [][NextGsw]_vars

(* test_regev on its inputs *)
InitRegev == RegevInit /\ CuckooIdle /\ NttIdle /\ GadgetIdle /\ PirIdle /\ GswIdle /\ ShoupIdle /\ CycloIdle /\ BflyIdle
NextRegev == RegevNext
SpecRegev == InitRegev /\ [][NextRegev]_vars

(* _mm256_mod_mul32 and _mm256_reduce_half on their inputs *)
InitShoup == ShoupInit /\ ShoupNttInit /\ CuckooIdle /\ GadgetIdle /\ PirIdle /\ GswIdle /\ RegevIdle /\ CycloIdle /\ BflyIdle
NextShoup == ShoupNext
SpecShoup == InitShoup /\ [][NextShoup]_vars

(* the ring Z_N[X] / (X^D + 1) on its inputs *)
InitCyclo == CycloInit /\ CuckooIdle /\ NttIdle /\ GadgetIdle /\ PirIdle /\ GswIdle /\ RegevIdle /\ ShoupIdle /\ BflyIdle
NextCyclo == CycloNext
SpecCyclo == InitCyclo /\ [][NextCyclo]_vars

(* one forward butterfly by both paths; of the NTT only the modulus is set *)
InitBfly == BflyInit /\ ShoupNttInit /\ CuckooIdle /\ GadgetIdle /\ PirIdle /\ GswIdle /\ RegevIdle /\ ShoupIdle /\ CycloIdle
NextBfly == BflyNext
SpecBfly == InitBfly /\ [][NextBfly]_vars

(* one index through run_spiral *)
InitPir == PirInit /\ CuckooIdle /\ NttIdle /\ GadgetIdle /\ GswIdle /\ RegevIdle /\ ShoupIdle /\ CycloIdle /\ BflyIdle
NextPir == PirNext
SpecPir == InitPir /\ [][NextPir]_vars

(* one index through run_spiral, the response decoded with or without error *)
InitPirNoisy == InitPir /\ BflyIdle
NextPirNoisy == PirNoisyNext
SpecPirNoisy == InitPirNoisy /\ [][NextPirNoisy]_vars

----------------------------------------------------------------------------
(***************************************************************************)
(*                  PROPERTIES OF THE CUCKOO BATCH LAYER                   *)
(***************************************************************************)
Candidates(i) == {idx_to_buckets(i)[1], idx_to_buckets(i)[2], idx_to_buckets(i)[3]}
CuckooSucceeded == IsSome(cuckoo_ret)
DistinctBatch == \A j, k \in 1 .. Len(record_idxs) : j # k => record_idxs[j] # record_idxs[k]

(* C2: batch correctness. When a batch request runs to the end of extract   *)
(* (cuckoo insertion succeeded and every base PIR call returned the record  *)
(* at the asked slot), the result has BATCH_SIZE entries and entry j is     *)
(* records_generator(record_idxs[j]).                                       *)
C2_BatchCorrect ==
    pc = "done" =>
        /\ DOMAIN result = 0 .. (BATCH_SIZE - 1)
        /\ \A j \in 0 .. (BATCH_SIZE - 1) :
               result[j] = records_generator(At(record_idxs, j))

(* a finished request for two different records that needed an eviction *)
C2_Witness ==
    /\ pc = "done"
    /\ DistinctBatch
    /\ evictions > 0
    /\ \A j \in 0 .. (BATCH_SIZE - 1) : result[j] = records_generator(At(record_idxs, j))

(* C3: cuckoo soundness. Whenever cuckoo returns Some(mapping), every batch *)
(* position occurs in exactly one pair, the pair's bucket is one of the     *)
(* three candidates of the item at that position, no bucket occurs in two   *)
(* pairs, and the mapping has items.len() pairs.                            *)
C3_CuckooSound ==
    CuckooSucceeded =>
        LET v == Unwrap(cuckoo_ret) IN
        /\ Len(v) = Len(record_idxs)
        /\ \A pos \in Positions : Cardinality({k \in DOMAIN v : v[k][2] = pos}) = 1
        /\ \A k \in DOMAIN v :
               /\ v[k][2] \in Positions
               /\ v[k][1] \in Candidates(At(record_idxs, v[k][2]))
        /\ \A k, l \in DOMAIN v : k # l => v[k][1] # v[l][1]

(* cuckoo returned a mapping after evicting an occupant *)
C3_Witness ==
    /\ CuckooSucceeded
    /\ evictions > 0
    /\ Len(Unwrap(cuckoo_ret)) = BATCH_SIZE

(* C4: cuckoo overflow is recoverable. When cuckoo fails (a pending item    *)
(* reached max_depth), query hands its caller an explicit failure value:    *)
(* once query has dealt with cuckoo's None it has returned a failure, it    *)
(* has not aborted.                                                         *)
C4_OverflowReported ==
    (cuckoo_ret = None /\ pc # "cuckoo_done") => pc = "query_failed"

----------------------------------------------------------------------------
(***************************************************************************)
(*                        PROPERTIES OF THE NTT                            *)
(***************************************************************************)
RECURSIVE Eval(_, _, _)
(* a_0 + a_1 x + ... + a_(n-1) x^(n-1) mod N *)
Eval(a, x, n) == IF n = 0 THEN 0 ELSE (Eval(a, x, n - 1) + a[n - 1] * PowMod(x, n - 1, nttN)) % nttN

RECURSIVE NegacyclicCoeff(_, _, _, _)
(* the sum over i < n of a_i b_(k-i), with X^D = -1 *)
NegacyclicCoeff(a, b, k, n) ==
    IF n = 0 THEN 0
    ELSE LET i == n - 1
             term == IF i <= k THEN a[i] * b[k - i] ELSE 0 - a[i] * b[k + nttD - i]
         IN  (NegacyclicCoeff(a, b, k, n - 1) + term) % nttN
NegacyclicMul(a, b) == [k \in 0 .. (nttD - 1) |-> NegacyclicCoeff(a, b, k, nttD)]

(* C5: NTT round-trip.  For the degrees D = 4 and D = 8, every modulus of  *)
(* NttParams, every primitive 2D-th root W and every input a with entries  *)
(* in [0, N), applying ntt_neg_forward and then ntt_neg_backward returns   *)
(* exactly a.                                                              *)
C5_RoundTrip == nttPc \in {"backward", "done"} => rt = va

C5_Witness ==
    /\ nttPc = "backward"
    /\ nttD = 8 /\ nttN = 241
    /\ va = [i \in 0 .. 7 |-> i + 1]
    /\ fa # va
    /\ BwdSubOverflows(fa)
    /\ rt = va

(* C6: NTT multiplicativity.  ntt_neg_backward applied to the lane-wise    *)
(* product of ntt_neg_forward(a) and ntt_neg_forward(b) is the product     *)
(* a*b in Z_N[X]/(X^D + 1): the schoolbook product with the upper half     *)
(* subtracted from the lower half.                                         *)
C6_Multiplicative == nttPc = "done" => prod = NegacyclicMul(va, vb)

C6_Witness ==
    /\ nttPc = "done"
    /\ nttD = 4 /\ nttN = 241
    /\ va = [i \in 0 .. 3 |-> i + 1]
    /\ vb = [i \in 0 .. 3 |-> i + 5]
    /\ prod = [i \in 0 .. 3 |-> (<<241 - 56, 241 - 36, 2, 60>>)[i + 1]]

(* C7: forward NTT definition.  After ntt_neg_forward, for every k in      *)
(* [0, D) the lane at position reverse_bits(k) holds the evaluation of the *)
(* polynomial a at W^(2k+1) mod N.                                         *)
C7_ForwardIsEvaluation ==
    fa # NoValues =>
        \A k \in 0 .. (nttD - 1) :
            fa[reverse_bits(nttD, k)] = Eval(va, PowMod(nttW, 2 * k + 1, nttN), nttD)

C7_Witness ==
    /\ nttPc = "forward_a"
    /\ nttD = 4
    /\ va = [i \in 0 .. 3 |-> i + 1]
    /\ fa = [i \in 0 .. 3 |->
                Eval(va, PowMod(nttW, (<<1, 5, 3, 7>>)[i + 1], nttN), 4)]
    /\ fa[0] # fa[1]

----------------------------------------------------------------------------
(***************************************************************************)
(*                  PROPERTIES OF THE GADGET MATRIX                        *)
(***************************************************************************)
(* row i holds z^0 .. z^(G_LEN-1) in columns [i*G_LEN, (i+1)*G_LEN), zero elsewhere *)
ExpectedGadget ==
    [e \in (0 .. (gN - 1)) \X (0 .. (gM - 1)) |->
        IF e[2] >= e[1] * G_LEN /\ e[2] < (e[1] + 1) * G_LEN
        THEN (G_BASE ^ (e[2] - e[1] * G_LEN)) % gQ
        ELSE 0]
GadgetBuilt == gPc \in {"built", "inverted", "multiplied", "panic_decompose"}
GadgetInverted == gPc \in {"inverted", "multiplied"}
(* the integer in [-Q/2, Q/2) that v stands for *)
CenteredLift(v) == IF 2 * v < gQ THEN v ELSE v - gQ
RECURSIVE DigitSum(_, _, _, _)
(* the sum over k < n of the signed digit in row first + k of column c, times z^k *)
DigitSum(mat, first, c, n) ==
    IF n = 0 THEN 0
    ELSE DigitSum(mat, first, c, n - 1)
         + CenteredLift(mat[<<first + n - 1, c>>]) * (G_BASE ^ (n - 1))

C9_GadgetStructure ==
    gM = gN * G_LEN =>
        /\ gPc # "panic_build"
        /\ (gPc = "building" /\ bg_j < gM) => (bg_i >= 0 /\ bg_i < gN)
        /\ GadgetBuilt => gadget = ExpectedGadget

C9_Witness ==
    /\ gPc = "built"
    /\ gN = 3 /\ G_BASE = 2 /\ G_LEN = 4 /\ gM = 12
    /\ bg_i = 3
    /\ gadget[<<2, 11>>] = 8
    /\ gadget[<<2, 7>>] = 0

----------------------------------------------------------------------------
(***************************************************************************)
(*                 PROPERTIES OF THE SINGLE-QUERY PIR RUN                  *)
(***************************************************************************)
PirFinished == pirPc \in {"checked", "error_printed", "panic_try_into"}

----------------------------------------------------------------------------
(*                       PROPERTIES OF RING-GSW                            *)
(* the noise of the key: s_T * A *)
KeyNoise == ZqMatrixMul(s_T, pk_A, 1, gN, gM)

----------------------------------------------------------------------------
(*                       PROPERTIES OF THE ROUNDING                        *)
RegevAbs(x) == IF x < 0 THEN 0 - x ELSE x

----------------------------------------------------------------------------
(*                        PROPERTIES OF encode_db                          *)
(* encode_db has returned *)
EncodeReturned == pc \notin {"idle", "start", "panic_encode"}
(* how often x occurs in the sequence s *)
CountIn(s, x) == Cardinality({k \in 1 .. Len(s) : s[k] = x})
(* how many of the three candidate hashes of record i are bucket b *)
CandidateCount(i, b) == Cardinality({k \in 1 .. 3 : idx_to_buckets(i)[k] = b})
RECURSIVE SomeTotal(_)
(* the number of Some entries in the layouts of the first n buckets *)
SomeTotal(n) ==
    IF n = 0 THEN 0
    ELSE SomeTotal(n - 1)
         + Cardinality({k \in 1 .. Len(bucket_layouts[n - 1]) : IsSome(bucket_layouts[n - 1][k])})

(* C14: the layouts encode_db returns.  Every bucket's layout has length   *)
(* DB_SIZE; record i occurs in bucket b's layout once per candidate hash   *)
(* of i equal to b, and not otherwise, so 3 * NUM_RECORDS entries are Some *)
(* in all; within a bucket the Some entries precede the None entries and   *)
(* are in non-decreasing record order; slot p of bucket b's database holds *)
(* records_generator(i) where the layout has Some(i), and the default      *)
(* record where it has None.                                               *)
C14_BucketLayout ==
    EncodeReturned =>
        /\ \A b \in Buckets :
              LET l == bucket_layouts[b]
              IN  /\ Len(l) = DB_SIZE
                  /\ \A i \in Records : CountIn(l, Some(i)) = CandidateCount(i, b)
                  /\ \A k \in 1 .. Len(l) : l[k] = None \/ (IsSome(l[k]) /\ Unwrap(l[k]) \in Records)
                  /\ \A k \in 1 .. (Len(l) - 1) :
                        /\ l[k] = None => l[k + 1] = None
                        /\ (IsSome(l[k]) /\ IsSome(l[k + 1])) => Unwrap(l[k]) <= Unwrap(l[k + 1])
                  /\ Len(dbs[b]) = DB_SIZE
                  /\ \A k \in 1 .. Len(l) :
                        dbs[b][k] = IF IsSome(l[k]) THEN records_generator(Unwrap(l[k]))
                                    ELSE ZeroRecord
        /\ SomeTotal(NUM_BUCKET) = 3 * NUM_RECORDS
(* a returned layout that holds a record twice, then the other record, then padding *)
C14_Witness ==
    /\ pc = "encoded"
    /\ bucket_layouts[0][1] = Some(0)
    /\ bucket_layouts[0][2] = Some(0)
    /\ bucket_layouts[0][3] = Some(1)
    /\ bucket_layouts[0][DB_SIZE] = None
    /\ dbs[0][3] = records_generator(1)

(* some bucket is given more than DB_SIZE record indices *)
BucketOverflows == MaxLen(PushRecords(NUM_RECORDS), NUM_BUCKET) > DB_SIZE

(* C15: when a bucket receives more than DB_SIZE record indices, encode_db *)
(* aborts before it pads a layout or encodes a bucket database; it aborts  *)
(* in no other case, and what it returns has no layout longer than DB_SIZE *)
(* and holds every record once per candidate hash.                         *)
C15_CapacityAbort ==
    /\ (pc \notin {"idle", "start"} /\ BucketOverflows) =>
          /\ pc = "panic_encode"
          /\ \A b \in Buckets : dbs[b] = << >>
          /\ \A b \in Buckets : \A k \in 1 .. Len(bucket_layouts[b]) : bucket_layouts[b][k] # None
    /\ pc = "panic_encode" => BucketOverflows
    /\ EncodeReturned =>
          /\ \A b \in Buckets : Len(bucket_layouts[b]) <= DB_SIZE
          /\ \A b \in Buckets : \A i \in Records :
                CountIn(bucket_layouts[b], Some(i)) = CandidateCount(i, b)
(* encode_db has aborted on a bucket that is not the first *)
C15_Witness ==
    /\ pc = "panic_encode"
    /\ Len(PushRecords(NUM_RECORDS)[1]) > DB_SIZE
    /\ Len(bucket_layouts[1]) > DB_SIZE
    /\ \A b \in Buckets : dbs[b] = << >>

RECURSIVE MaxRetryDepth(_, _)
MaxRetryDepth(r, n) == IF n = 0 THEN 0 ELSE Max(r[n][2], MaxRetryDepth(r, n - 1))

C17_ShoupMul ==
    /\ shoupPc \in {"multiplied", "done"} =>
          /\ shoup_value \in 0 .. (2 * nttN - 1)
          /\ shoup_value % nttN = (shoup_lhs * shoup_rhs) % nttN
    /\ shoupPc \in {"done", "reduced"} =>
          /\ shoup_reduced \in 0 .. (nttN - 1)
          /\ shoup_reduced % nttN = shoup_value % nttN

(* a product the multiplication leaves in [N, 2N), at the largest modulus, *)
(* with lhs beyond 2N, and then reduced                                    *)
C17_Witness ==
    /\ shoupPc = "done"
    /\ nttN = 255
    /\ shoup_lhs >= 2 * nttN
    /\ shoup_lhs * shoup_rhs >= Word
    /\ shoup_value >= nttN
    /\ shoup_reduced = shoup_value - nttN

(***************************************************************************)
(*               PROPERTIES OF THE RING  Z_N[X] / (X^D + 1)                *)
(***************************************************************************)
(* C18: RingElement::one() is the multiplicative identity of                *)
(* Z_N_CycloRaw<D, N>: a * one() = one() * a = a for every element a, and   *)
(* one() is the canonical image from(1) of the integer 1.                   *)
C18_OneIsIdentity ==
    cycloPc = "done" =>
        /\ cyclo_a_one = cyclo_a
        /\ cyclo_one_a = cyclo_a
        /\ cyclo_one = cyclo_from_u64(1)

RECURSIVE SignedWraps(_, _, _)
(* v_j - v_(j+D) + v_(j+2D) - ... over the first n wraps of the vector v *)
SignedWraps(v, j, n) ==
    IF n = 0 THEN 0
    ELSE LET w == n - 1
             x == IF j + w * CYCLO_D < Len(v) THEN v[j + w * CYCLO_D + 1] ELSE 0
         IN  SignedWraps(v, j, n - 1) + (IF w % 2 = 0 THEN x ELSE 0 - x)
Wraps(v) == (Len(v) + CYCLO_D - 1) \div CYCLO_D
(* the image of v_0 + v_1 X + ... in Z_N[X] / (X^D + 1) *)
Reduced(v) == [j \in 0 .. (CYCLO_D - 1) |-> SignedWraps(v, j, Wraps(v)) % CYCLO_N]

RECURSIVE SchoolbookPairs(_, _, _)
(* the sum of a_i * b_j * X^(i + j) over the first n pairs (i, j), as a     *)
(* vector of 2D - 1 integer coefficients                                    *)
SchoolbookPairs(a, b, n) ==
    IF n = 0 THEN [k \in 1 .. (2 * CYCLO_D - 1) |-> 0]
    ELSE LET i == (n - 1) \div CYCLO_D
             j == (n - 1) % CYCLO_D
         IN  [SchoolbookPairs(a, b, n - 1) EXCEPT ![i + j + 1] = @ + a[i] * b[j]]
Schoolbook(a, b) == SchoolbookPairs(a, b, CYCLO_D * CYCLO_D)
Monomial(k, c) == [i \in 0 .. (CYCLO_D - 1) |-> IF i = k THEN c % CYCLO_N ELSE 0]

(* C19: negacyclic reduction.  Converting a vector of any length into       *)
(* Z_N_CycloRaw<D, N> adds coefficient i into position i mod D with sign +1 *)
(* when floor(i / D) is even and -1 when it is odd, and the ring product    *)
(* a * b is the schoolbook product of the two coefficient arrays followed   *)
(* by this reduction; for D = 4, X^3 * 2X^2 = -2X and X^3 * X^3 = -X^2.     *)
C19_NegacyclicReduction ==
    /\ cycloPc \in {"converted", "multiplied", "done"} =>
          /\ cyclo_a = Reduced(cyclo_vec)
          /\ cyclo_b = Reduced(cyclo_vec_b)
          /\ \A i \in 0 .. (CYCLO_D - 1) : cyclo_a[i] \in 0 .. (CYCLO_N - 1)
    /\ cycloPc \in {"multiplied", "done"} =>
          /\ cyclo_prod = Reduced(Schoolbook(cyclo_a, cyclo_b))
          /\ (cyclo_a = Monomial(3, 1) /\ cyclo_b = Monomial(2, 2)) =>
                cyclo_prod = Monomial(1, 0 - 2)
          /\ (cyclo_a = Monomial(3, 1) /\ cyclo_b = Monomial(3, 1)) =>
                cyclo_prod = Monomial(2, 0 - 1)

(* the vector 41 + 6X + X^2 + 5X^4 + X^8 of test_from_into, which wraps      *)
(* twice, converted to 37 + 6X + X^2 and multiplied by X^3                  *)
C19_Witness ==
    /\ cycloPc = "multiplied"
    /\ cyclo_vec = <<41, 6, 1, 0, 5, 0, 0, 0, 1>>
    /\ cyclo_a = cyclo_from_vec(<<37, 6, 1, 0>>)
    /\ cyclo_b = Monomial(3, 1)
    /\ cyclo_prod = cyclo_from_vec(<<CYCLO_N - 6, CYCLO_N - 1, 0, 37>>)

(***************************************************************************)
(*                       PROPERTIES OF run_spiral                          *)
(***************************************************************************)
RecordDisagrees ==
    \E c \in 1 .. D_RECORD : extracted_record[c] # pir_records[pir_idx][c - 1]

(* C20: a decryption disagreement is reported as a failure.  When the       *)
(* record extracted for the queried index differs from the stored record,   *)
(* run_spiral does not return normally (which is what lets test_spiral_one  *)
(* pass and the process exit with 0); it ends in a failure.                 *)
C20_DisagreementFails == pirPc = "returned" => ~RecordDisagrees

(***************************************************************************)
(*            PROPERTIES OF query, answer AND extract (BATCH LAYER)        *)
(***************************************************************************)
QueryReturned == pc \in {"queried", "answering", "answered", "done", "panic_extract"}
(* the buckets the cuckoo mapping pairs with a batch position *)
QueriedBuckets == {Unwrap(cuckoo_ret)[k][1] : k \in DOMAIN Unwrap(cuckoo_ret)}

(* C21: slot lookup never fails.  For the layouts of encode_db, every       *)
(* requested index in [0, NUM_RECORDS) and every mapping cuckoo returns,    *)
(* each bucket of the mapping is in [0, NUM_BUCKET) and is a candidate of   *)
(* its item, the scan of query finds the item in that bucket's layout (the  *)
(* unwrap of find_position never fails), and the base query of the bucket   *)
(* asks for the first position that holds the item.                         *)
C21_SlotLookup ==
    /\ pc # "panic_query_find"
    /\ QueryReturned =>
          \A k \in DOMAIN Unwrap(cuckoo_ret) :
              LET b   == Unwrap(cuckoo_ret)[k][1]
                  rec == At(record_idxs, Unwrap(cuckoo_ret)[k][2])
              IN  /\ b \in Buckets
                  /\ b \in Candidates(rec)
                  /\ actual_idxs[b] \in 0 .. (DB_SIZE - 1)
                  /\ At(bucket_layouts[b], actual_idxs[b]) = Some(rec)
                  /\ \A p \in 0 .. (actual_idxs[b] - 1) : At(bucket_layouts[b], p) # Some(rec)
                  /\ qs[b] = query_one(actual_idxs[b])

(* the item is found behind another record, in a bucket that holds it twice *)
C21_Witness ==
    /\ pc = "queried"
    /\ \E k \in DOMAIN Unwrap(cuckoo_ret) :
          LET b   == Unwrap(cuckoo_ret)[k][1]
              rec == At(record_idxs, Unwrap(cuckoo_ret)[k][2])
          IN  /\ actual_idxs[b] > 0
              /\ \E p \in (actual_idxs[b] + 1) .. (DB_SIZE - 1) :
                    At(bucket_layouts[b], p) = Some(rec)

(* C22 as stated: for every bucket the mapping leaves out, query asks for   *)
(* one canonical slot, the same whatever the requested indices are, and     *)
(* that slot holds no record in the bucket's padded layout.                 *)
C22_UnusedSlot ==
    QueryReturned =>
        \A b \in Buckets \ QueriedBuckets :
            /\ actual_idxs[b] = 0
            /\ qs[b] = query_one(0)
            /\ At(bucket_layouts[b], actual_idxs[b]) = None

(* C22, amended: for every bucket the mapping leaves out, query asks for    *)
(* slot 0, whatever the requested indices are.  Slot 0 is unused only in a  *)
(* bucket no record hashes to: encode_db puts the records first and the     *)
(* padding behind them, so in every other bucket slot 0 holds a record.     *)
C22_SlotZero ==
    QueryReturned =>
        \A b \in Buckets \ QueriedBuckets :
            /\ actual_idxs[b] = 0
            /\ qs[b] = query_one(0)
            /\ (At(bucket_layouts[b], 0) = None) <=> (\A i \in Records : b \notin Candidates(i))

(* a bucket the mapping leaves out whose slot 0 holds a record *)
C22_Witness ==
    /\ pc = "queried"
    /\ \E b \in Buckets \ QueriedBuckets :
          /\ actual_idxs[b] = 0
          /\ IsSome(At(bucket_layouts[b], 0))

AnswerReturned == pc \in {"answered", "done", "panic_extract"}
(* the record bucket b's database holds at the slot its query asks for *)
BucketRecord(b) == At(dbs[b], actual_idxs[b])
(* the bucket of the response that sits at place k of chunk c *)
BucketAt(c, k) == (c - 1) * RESPONSE_CHUNK_SIZE + k - 1

(* C23: bucket order survives chunking.  answer splits the NUM_BUCKET       *)
(* per-bucket answers, in bucket order, into ceil(NUM_BUCKET /              *)
(* RESPONSE_CHUNK_SIZE) consecutive chunks; extract concatenates the        *)
(* records of the chunks in order and keeps the first NUM_BUCKET, so entry  *)
(* b is bucket b's record; result[j] is then the record of the bucket the   *)
(* mapping pairs with position j, and no position keeps the default when    *)
(* the mapping covers every position.                                       *)
C23_BucketOrder ==
    /\ AnswerReturned =>
          /\ Len(response) = (NUM_BUCKET + RESPONSE_CHUNK_SIZE - 1) \div RESPONSE_CHUNK_SIZE
          /\ \A c \in 1 .. Len(response) :
                /\ Len(response[c][2]) \in 1 .. RESPONSE_CHUNK_SIZE
                /\ c < Len(response) => Len(response[c][2]) = RESPONSE_CHUNK_SIZE
                /\ \A k \in 1 .. Len(response[c][2]) :
                      /\ BucketAt(c, k) \in Buckets
                      /\ response[c][2][k] = BucketRecord(BucketAt(c, k))
          /\ Len(ResultByBucket(response, Len(response))) = NUM_BUCKET
          /\ \A b \in Buckets :
                At(ResultByBucket(response, Len(response)), b) = BucketRecord(b)
    /\ pc # "panic_extract"
    /\ pc = "done" =>
          /\ \A k \in DOMAIN Unwrap(cuckoo_ret) :
                result[Unwrap(cuckoo_ret)[k][2]] = BucketRecord(Unwrap(cuckoo_ret)[k][1])
          /\ \A j \in 0 .. (BATCH_SIZE - 1) : result[j] # ZeroRecord

(* a request whose two items sit in different chunks of the response, the   *)
(* later batch position in the earlier chunk                                *)
C23_Witness ==
    /\ pc = "done"
    /\ \E k, l \in DOMAIN Unwrap(cuckoo_ret) :
          /\ Unwrap(cuckoo_ret)[k][2] < Unwrap(cuckoo_ret)[l][2]
          /\ Unwrap(cuckoo_ret)[k][1] \div RESPONSE_CHUNK_SIZE
                > Unwrap(cuckoo_ret)[l][1] \div RESPONSE_CHUNK_SIZE
          /\ result[Unwrap(cuckoo_ret)[k][2]] # result[Unwrap(cuckoo_ret)[l][2]]

(* C24: the parallel fan-out of answer is race-free and order-preserving.   *)
(* Under every interleaving of the per-bucket workers, a worker that has    *)
(* finished has left answer_one(pp, dbs[b], qs[b]) at place b, so the       *)
(* collected vector has it there for every bucket b; and no step taken      *)
(* while the workers run changes the databases, the layouts or the queries. *)
C24_FanOut ==
    /\ [](pc \in {"answering", "answered", "done"} =>
            \A b \in Buckets :
                \/ pc = "answering" /\ answers[b] = None
                \/ answers[b] = Some(answer_one(dbs[b], qs[b])))
    /\ [][pc = "answering" => UNCHANGED <<dbs, qs, bucket_layouts, actual_idxs, cuckoo_ret>>]_vars

(* the worker of the last bucket has finished before the worker of the      *)
(* first, and their queries differ                                          *)
C24_Witness ==
    /\ pc = "answering"
    /\ answers[0] = None
    /\ answers[NUM_BUCKET - 1] = Some(answer_one(dbs[NUM_BUCKET - 1], qs[NUM_BUCKET - 1]))
    /\ qs[0] # qs[NUM_BUCKET - 1]

(***************************************************************************)
(*                      PROPERTIES OF cuckoo's LOOP                        *)
(***************************************************************************)
HeldBy(pos) == {b \in Buckets : mapping[b] = Some(pos)}
PendingAt(pos) == {k \in DOMAIN remaining : remaining[k][1] = pos}
(* one turn of the loop that did not return *)
LoopTurn == pc = "cuckoo" /\ pc' = "cuckoo" /\ remaining # << >>

(* C25: cuckoo placement invariant.  In every state of cuckoo's loop each   *)
(* batch position is held by exactly one bucket of the mapping or is once   *)
(* on the pending stack, never both and never neither.  In a turn of the    *)
(* loop the item takes a free candidate whenever one of its three is free   *)
(* (the first free one, with no eviction), and only when all three are      *)
(* occupied does it replace one occupant, which is pushed in the same turn  *)
(* with the item's depth plus one.                                          *)
C25_Placement ==
    /\ [](pc = "cuckoo" =>
            \A pos \in Positions :
                Cardinality(HeldBy(pos)) + Cardinality(PendingAt(pos)) = 1)
    /\ [][LoopTurn =>
            LET top   == remaining[Len(remaining)]
                rest  == SubSeq(remaining, 1, Len(remaining) - 1)
                idx   == top[1]
                depth == top[2]
                t     == idx_to_buckets(At(record_idxs, idx))
                free  == {c \in 1 .. 3 : mapping[t[c]] = None}
            IN  IF free # {}
                THEN \E c \in free :
                        /\ \A c2 \in free : c <= c2
                        /\ mapping' = [mapping EXCEPT ![t[c]] = Some(idx)]
                        /\ remaining' = rest
                        /\ evictions' = evictions
                ELSE \E c \in 1 .. 3 :
                        /\ mapping' = [mapping EXCEPT ![t[c]] = Some(idx)]
                        /\ remaining' = Append(rest, <<Unwrap(mapping[t[c]]), depth + 1>>)
                        /\ evictions' = evictions + 1]_vars

(* in the loop over three items: one item evicted twice over and pending,   *)
(* one still waiting at depth 0, one held                                   *)
C25_Witness ==
    /\ pc = "cuckoo"
    /\ Len(record_idxs) = CuckooItems
    /\ Len(remaining) = 2
    /\ remaining[1][2] = 0
    /\ remaining[2][2] = 2
    /\ Cardinality(Occupied) = 1

RECURSIVE PendingWork(_, _)
(* the sum over the first n entries of the stack of max_depth + 1 - depth   *)
PendingWork(r, n) ==
    IF n = 0 THEN 0 ELSE PendingWork(r, n - 1) + (MaxDepth + 1 - r[n][2])

(* C26: cuckoo insertion terminates.  For every batch (with more items      *)
(* than buckets, with repeated indices), and every sequence of eviction     *)
(* choices, cuckoo returns after finitely many turns of its loop: as long   *)
(* as it has not returned a next step exists, every turn that does not      *)
(* return lowers the pending work, which starts at items.len() *            *)
(* (max_depth + 1) and is never negative, and the step that returns gives   *)
(* None exactly when the item it took from the stack has depth >=           *)
(* max_depth, and Some otherwise.                                           *)
C26_Terminates ==
    /\ [](pc \in {"call_cuckoo", "cuckoo"} =>
            /\ ENABLED NextCuckoo
            /\ PendingWork(remaining, Len(remaining)) \in
                   0 .. (Len(record_idxs) * (MaxDepth + 1)))
    /\ [][LoopTurn =>
            PendingWork(remaining', Len(remaining'))
                < PendingWork(remaining, Len(remaining))]_vars
    /\ [][(pc = "cuckoo" /\ pc' # "cuckoo") =>
            /\ pc' = "cuckoo_done"
            /\ cuckoo_ret' = None <=>
                   (remaining # << >> /\ remaining[Len(remaining)][2] >= MaxDepth)
            /\ IsSome(cuckoo_ret') <=> remaining = << >>]_vars

(* both ends: a batch of more items than buckets has failed, at the depth   *)
(* limit, after the other items were placed                                 *)
C26_Witness ==
    /\ pc = "cuckoo_done"
    /\ Len(record_idxs) > NUM_BUCKET
    /\ cuckoo_ret = None
    /\ Cardinality(Occupied) = NUM_BUCKET
    /\ evictions >= MaxDepth

(***************************************************************************)
(*                 RANGES OF THE LANES INSIDE THE NTT                      *)
(***************************************************************************)
Lanes == 0 .. (nttD - 1)
AllBelow(values, bound) == \A i \in Lanes : values[i] \in 0 .. (bound - 1)
ForwardRan == nttPc \in {"forward_a", "forward_b", "backward", "done"}
BackwardRan == nttPc \in {"backward", "done"}

(* C27 as stated: in both transforms every lane lies in [0, 2q) after each  *)
(* of the log2(D) rounds, and the final pass reduces each lane from         *)
(* [0, 2q) into [0, q).                                                     *)
C27_LazyRange2q ==
    /\ ForwardRan =>
          /\ \A r \in 1 .. LOG_D : AllBelow(FwdRounds(va, r), 2 * nttN)
          /\ AllBelow(fa, nttN)
    /\ BackwardRan =>
          /\ \A r \in 1 .. LOG_D : AllBelow(BwdRounds(fa, r), 2 * nttN)
          /\ AllBelow(rt, nttN)

(* C27, amended: the backward butterflies leave both outputs in [0, 2q),    *)
(* and the final pass multiplies by 1/D and reduces once, from [0, 2q)      *)
(* into [0, q).  The forward butterflies reduce only their input x to       *)
(* [0, 2q) and leave x + w*y and x - w*y + 2q in [0, 4q), so after each     *)
(* forward round every lane lies in [0, 4q), and the final pass reduces     *)
(* twice: by 2q into [0, 2q) and by q into [0, q).  Both final passes keep  *)
(* the residue mod q.                                                       *)
C27_LazyRange ==
    /\ ForwardRan =>
          /\ \A r \in 1 .. LOG_D : AllBelow(FwdRounds(va, r), 4 * nttN)
          /\ AllBelow(fa, nttN)
          /\ \A i \in Lanes : fa[i] = FwdRounds(va, LOG_D)[i] % nttN
    /\ BackwardRan =>
          /\ \A r \in 1 .. LOG_D : AllBelow(BwdRounds(fa, r), 2 * nttN)
          /\ AllBelow(rt, nttN)
          /\ \A i \in Lanes : rt[i] = (BwdRounds(fa, LOG_D)[i] * INV_D) % nttN

(* after the last forward round a lane lies in [2q, 4q), at the larger      *)
(* modulus and with the vector butterflies in use                           *)
C27_Witness ==
    /\ nttPc = "backward"
    /\ nttD = 8 /\ nttN = 241
    /\ \E i \in Lanes : FwdRounds(va, LOG_D)[i] >= 2 * nttN
    /\ \E i \in Lanes : BwdRounds(fa, LOG_D)[i] >= nttN

(* the right lanes of a round whose butterflies pair lanes half_stride apart *)
RightLanes(half_stride) == {i \in Lanes : (i % (2 * half_stride)) >= half_stride}
(* `x - y + 2 * N` of a backward butterfly as the u64 arithmetic gives it *)
BwdShoupOperand(x, y) == WrapLane(WrapLane(x - y) + 2 * nttN)

(* C28: no overflow and canonical output.  For q < 2^(w-2) (w the word      *)
(* width, 32 in the code) and input lanes in [0, q): at every butterfly of  *)
(* ntt_neg_forward the lane y passed to the Shoup multiplication and the    *)
(* lane x are in [0, 4q); at every butterfly of ntt_neg_backward the value  *)
(* x - y + 2q passed to it is in [0, 4q) and is the integer x - y + 2q,     *)
(* whatever the subtraction did on the way; the lanes passed to the final   *)
(* multiplication by 1/D are in [0, 4q); every stored lane is below 2^w;    *)
(* and on return every lane is in [0, q).                                   *)
C28_NoOverflow ==
    /\ 4 * nttN <= Word
    /\ AllBelow(va, nttN)
    /\ ForwardRan =>
          /\ \A r \in 0 .. (LOG_D - 1) :
                /\ \A i \in RightLanes(nttD \div (2 ^ (r + 1))) :
                      /\ FwdRounds(va, r)[i] \in 0 .. (4 * nttN - 1)
                      /\ FwdRounds(va, r)[i - nttD \div (2 ^ (r + 1))] \in 0 .. (4 * nttN - 1)
                /\ AllBelow(FwdRounds(va, r + 1), Word)
          /\ AllBelow(fa, nttN)
    /\ BackwardRan =>
          /\ \A r \in 0 .. (LOG_D - 1) :
                /\ \A i \in RightLanes(2 ^ r) :
                      LET x == BwdRounds(fa, r)[i - 2 ^ r]
                          y == BwdRounds(fa, r)[i]
                      IN  /\ BwdShoupOperand(x, y) \in 0 .. (4 * nttN - 1)
                          /\ BwdShoupOperand(x, y) = x - y + 2 * nttN
                /\ AllBelow(BwdRounds(fa, r + 1), Word)
          /\ AllBelow(BwdRounds(fa, LOG_D), 4 * nttN)
          /\ AllBelow(rt, nttN)

(* a run at the largest modulus in which a forward butterfly is handed a    *)
(* lane in [3q, 4q) and a backward butterfly has x < y                      *)
C28_Witness ==
    /\ nttPc = "done"
    /\ nttD = 8 /\ nttN = 241
    /\ \E r \in 1 .. (LOG_D - 1) : \E i \in RightLanes(nttD \div (2 ^ (r + 1))) :
          FwdRounds(va, r)[i] >= 3 * nttN
    /\ BwdSubOverflows(fa)
    /\ AllBelow(rt, nttN)

(* C29: the scalar fallback equals the vector path.  For every pair of      *)
(* lanes (x, y) in [0, 4q) and every twiddle (w, get_ratio32(w)), the       *)
(* scalar butterfly gives the same pair (x_new, y_new) as the vector        *)
(* butterfly gives on that lane.                                            *)
C29_ScalarEqualsVector ==
    /\ bflyPc # "idle" =>
          /\ bfly_x \in 0 .. (4 * nttN - 1)
          /\ bfly_y \in 0 .. (4 * nttN - 1)
    /\ bflyPc = "done" =>
          /\ bfly_scalar = bfly_vector
          /\ bfly_scalar[1] % nttN = (bfly_x + bfly_w * bfly_y) % nttN
          /\ bfly_scalar[2] % nttN = (bfly_x - bfly_w * bfly_y) % nttN

(* both paths have run on a pair whose x needs the reduction by 2q and      *)
(* whose product needs the Shoup correction, at the large modulus           *)
C29_Witness ==
    /\ bflyPc = "done"
    /\ nttN = BflyLargeModulus
    /\ bfly_x >= 2 * nttN /\ bfly_y >= 3 * nttN /\ bfly_w = nttN - 1
    /\ bfly_scalar = bfly_vector
    /\ bfly_scalar[1] >= 2 * nttN

(***************************************************************************)
(*                THE SHAPE OF THE MESSAGES OF THE BATCH LAYER             *)
(***************************************************************************)
(* C30: the shape of the messages does not depend on the requested          *)
(* indices.  Whenever cuckoo succeeds, query returns exactly NUM_BUCKET     *)
(* base queries, one for every bucket whether the mapping uses it or not,   *)
(* and answer returns ceil(NUM_BUCKET / RESPONSE_CHUNK_SIZE) chunks whose   *)
(* sizes are fixed by their place: the counts are the same constants for    *)
(* every batch, every hash assignment and every mapping.                    *)
C30_MessageShape ==
    /\ QueryReturned =>
          /\ DOMAIN qs = Buckets
          /\ Cardinality(DOMAIN qs) = NUM_BUCKET
          /\ \A b \in Buckets : \E slot \in 0 .. (DB_SIZE - 1) : qs[b] = query_one(slot)
    /\ pc \in {"answering", "answered", "done"} =>
          /\ DOMAIN answers = Buckets
    /\ AnswerReturned =>
          /\ Len(response) = (NUM_BUCKET + RESPONSE_CHUNK_SIZE - 1) \div RESPONSE_CHUNK_SIZE
          /\ \A c \in 1 .. Len(response) :
                Len(response[c][2])
                    = Min(RESPONSE_CHUNK_SIZE, NUM_BUCKET - (c - 1) * RESPONSE_CHUNK_SIZE)

(* a batch that asks for the same index twice has been answered: two        *)
(* buckets serve it, a third is not in the mapping, and the messages have   *)
(* the same shape as for any other batch                                    *)
C30_Witness ==
    /\ pc = "answered"
    /\ At(record_idxs, 0) = At(record_idxs, 1)
    /\ Cardinality(QueriedBuckets) = BATCH_SIZE
    /\ Buckets \ QueriedBuckets # {}
    /\ Cardinality(DOMAIN qs) = NUM_BUCKET
    /\ Len(response) = NumChunks

============================================================================
